---- MODULE Spec2Model ----
(***************************************************************************)
(* Model of tripwire's rule evaluation engine (src/alerts.py): the         *)
(* cooldown state functions, the threshold parser, the rule evaluators,    *)
(* the category dispatcher and the run loop of main.                       *)
(*                                                                         *)
(* Python strings are sequences of one-character strings, so that string   *)
(* concatenation, comparison, formatting and parsing are computed.  A      *)
(* Python dict is a function with a finite domain.  An optional value is   *)
(* None (the empty tuple) or a one-element tuple holding the value.  A    *)
(* Python float is an IEEE 754 binary64 number and every operation on      *)
(* floats is rounded as the interpreter rounds it.                         *)
(***************************************************************************)
EXTENDS Integers, Sequences, FiniteSets, TLC

VARIABLES
    st,         \* state specification: the state object
    fireLog,    \* state specification: the calls made on it, in order
    evalIn,     \* evaluation specification: the arguments of the evaluators
    evalState,  \* evaluation specification: the state argument
    evalCalls,  \* evaluation specification: the calls made, in order
    config,     \* run specifications: what load_config returns
    clock,      \* run specifications: the wall clock, in half-hours since Epoch
    store,      \* run specifications: the state file on the state branch
    runs,       \* run specifications: the local variables of each run of main
    started,    \* run specifications: the number of runs started
    sent,       \* run specifications: the alerts delivered, in order
    writes      \* run specifications: the writes the store accepted, in order

stateVars == <<st, fireLog>>

evalVars == <<evalIn, evalState, evalCalls>>

mainVars == <<config, clock, store, runs, started, sent, writes>>

vars == <<stateVars, evalVars, mainVars>>

(***************************************************************************)
(* Bounds of the model.                                                    *)
(***************************************************************************)
\* instants are Epoch + k half-hours, k in 0..MaxTick
MaxTick == 5
\* number of record_firing / prune_old_months calls of the state specification
MaxOps == 3
\* number of evaluator calls of the evaluation specification
MaxCalls == 2
\* number of runs of main started in a run specification
MaxRuns == 2

(***************************************************************************)
(* Characters and strings.                                                 *)
(***************************************************************************)
None == <<>>

Digits == <<"0", "1", "2", "3", "4", "5", "6", "7", "8", "9">>

UpperCase == <<"A", "B", "C", "D", "E", "F", "G", "H", "I", "J", "K", "L", "M",
               "N", "O", "P", "Q", "R", "S", "T", "U", "V", "W", "X", "Y", "Z">>

LowerCase == <<"a", "b", "c", "d", "e", "f", "g", "h", "i", "j", "k", "l", "m",
               "n", "o", "p", "q", "r", "s", "t", "u", "v", "w", "x", "y", "z">>

\* the characters of the model in code point order
Alphabet == <<" ", "$", "%", "+", "-", ".">> \o Digits \o <<":">> \o UpperCase \o LowerCase

Ord(ch) == CHOOSE i \in 1..Len(Alphabet) : Alphabet[i] = ch

IsDigit(ch) == \E i \in 1..10 : Digits[i] = ch

DigitVal(ch) == (CHOOSE i \in 1..10 : Digits[i] = ch) - 1

IsSpace(ch) == ch = " "

ToLower(ch) ==
    IF \E i \in 1..26 : UpperCase[i] = ch
    THEN LowerCase[CHOOSE i \in 1..26 : UpperCase[i] = ch]
    ELSE ch

\* Python's a < b on str: lexicographic by code point, a proper prefix is smaller
StrLess(a, b) ==
    \E i \in 1..Len(b) :
        /\ i - 1 <= Len(a)
        /\ \A j \in 1..(i - 1) : a[j] = b[j]
        /\ (i = Len(a) + 1 \/ Ord(a[i]) < Ord(b[i]))

Pad2(n) == <<Digits[((n \div 10) % 10) + 1], Digits[(n % 10) + 1]>>

Pad4(n) == <<Digits[((n \div 1000) % 10) + 1], Digits[((n \div 100) % 10) + 1],
             Digits[((n \div 10) % 10) + 1], Digits[(n % 10) + 1]>>

RECURSIVE DigitsToInt(_, _, _)
\* the decimal number written in s[i..j]
DigitsToInt(s, i, j) ==
    IF j < i THEN 0 ELSE DigitsToInt(s, i, j - 1) * 10 + DigitVal(s[j])

(***************************************************************************)
(* Python dicts.                                                           *)
(***************************************************************************)
EmptyDict == <<>>

\* d.get(k, default)
Get(d, k, default) == IF k \in DOMAIN d THEN d[k] ELSE default

\* d.get(k): None when absent
GetOpt(d, k) == IF k \in DOMAIN d THEN <<d[k]>> ELSE None

\* d[k] = v
SetItem(d, k, v) == [x \in DOMAIN d \cup {k} |-> IF x = k THEN v ELSE d[x]]

\* d.setdefault(k, v), as the dict it leaves
SetDefault(d, k, v) == IF k \in DOMAIN d THEN d ELSE SetItem(d, k, v)

\* del d[k] for every k of ks
DelKeys(d, ks) == [x \in DOMAIN d \ ks |-> d[x]]

(***************************************************************************)
(* datetime: aware UTC instants [year, month, day, hour, minute].          *)
(***************************************************************************)
IsLeap(y) == y % 4 = 0 /\ (y % 100 # 0 \/ y % 400 = 0)

\* calendar.monthrange(year, month)[1]
DaysInMonth(y, m) ==
    IF m = 2 THEN (IF IsLeap(y) THEN 29 ELSE 28)
    ELSE IF m \in {4, 6, 9, 11} THEN 30 ELSE 31

DaysBeforeYear(y) ==
    (y - 1) * 365 + (y - 1) \div 4 - (y - 1) \div 100 + (y - 1) \div 400

RECURSIVE DaysBeforeMonth(_, _)
DaysBeforeMonth(y, m) ==
    IF m = 1 THEN 0 ELSE DaysBeforeMonth(y, m - 1) + DaysInMonth(y, m - 1)

ToOrdinal(dt) == DaysBeforeYear(dt.year) + DaysBeforeMonth(dt.year, dt.month) + dt.day

\* a - b, a timedelta, in minutes
MinutesBetween(a, b) ==
    (ToOrdinal(a) - ToOrdinal(b)) * 1440 + (a.hour - b.hour) * 60 + (a.minute - b.minute)

\* timedelta(hours=h) in minutes
HoursDelta(h) == h * 60

RECURSIVE NormalizeDay(_)
NormalizeDay(dt) ==
    IF dt.day > DaysInMonth(dt.year, dt.month)
    THEN NormalizeDay([dt EXCEPT !.day = @ - DaysInMonth(dt.year, dt.month),
                                 !.month = IF @ = 12 THEN 1 ELSE @ + 1,
                                 !.year = IF dt.month = 12 THEN @ + 1 ELSE @])
    ELSE dt

\* dt + timedelta(minutes=n), n >= 0
AddMinutes(dt, n) ==
    LET m == dt.minute + n
        h == dt.hour + m \div 60
    IN  NormalizeDay([dt EXCEPT !.minute = m % 60, !.hour = h % 24,
                                !.day = @ + h \div 24])

\* the instants a run can read from datetime.now(timezone.utc): half an hour
\* apart, around the turn of the month and of the year
Epoch == [year |-> 2026, month |-> 12, day |-> 31, hour |-> 22, minute |-> 30]

Instant(k) == AddMinutes(Epoch, 30 * k)

Instants == {Instant(k) : k \in 0..MaxTick}

\* now.strftime("%Y-%m")
current_month_key(now) == Pad4(now.year) \o <<"-">> \o Pad2(now.month)

\* now.isoformat() of an aware UTC datetime without microseconds
isoformat(dt) ==
    Pad4(dt.year) \o <<"-">> \o Pad2(dt.month) \o <<"-">> \o Pad2(dt.day) \o <<"T">>
    \o Pad2(dt.hour) \o <<":">> \o Pad2(dt.minute) \o <<":", "0", "0">>
    \o <<"+", "0", "0", ":", "0", "0">>

\* datetime.fromisoformat(s) of such a string
fromisoformat(s) ==
    [year |-> DigitsToInt(s, 1, 4), month |-> DigitsToInt(s, 6, 7),
     day |-> DigitsToInt(s, 9, 10), hour |-> DigitsToInt(s, 12, 13),
     minute |-> DigitsToInt(s, 15, 16)]

(***************************************************************************)
(* Python floats (IEEE 754 binary64).  A float is zero, or a sign, a       *)
(* significand of MantDig bits, most significant first and leading with 1, *)
(* and the exponent of the last bit: sign * significand * 2^exp.  Each     *)
(* operation gives the float nearest to its exact result, ties to even.    *)
(* The exact results are worked out on bit strings, in limbs of LimbBits   *)
(* bits, so the ints that meet a float stay below 2^DivisorBits in size.   *)
(* Infinities, NaN and subnormals are out of the range of the model.       *)
(***************************************************************************)
\* sys.float_info.mant_dig
MantDig == 53

\* the bits of a limb, of an int, and of the largest int a float is divided by
LimbBits == 10

IntBits == 31

DivisorBits == 20

FloatZero == [sign |-> 0, mant |-> <<>>, exp |-> 0]

Abs(n) == IF n < 0 THEN 0 - n ELSE n

Sgn(n) == IF n < 0 THEN 0 - 1 ELSE IF n = 0 THEN 0 ELSE 1

Pow2Table ==
    <<1, 2, 4, 8, 16, 32, 64, 128, 256, 512, 1024, 2048, 4096, 8192, 16384, 32768,
      65536, 131072, 262144, 524288, 1048576, 2097152, 4194304, 8388608, 16777216,
      33554432, 67108864, 134217728, 268435456, 536870912, 1073741824>>

Pow2(n) == Pow2Table[n + 1]

Base == Pow2(LimbBits)

Zeros(n) == [i \in 1..n |-> 0]

\* the bits of n >= 0, most significant first
ToBits(n) == <<>> \o [i \in 1..IntBits |-> (n \div Pow2(IntBits - i)) % 2]

\* b without its leading zeros
StripZeros(b) ==
    IF \A i \in 1..Len(b) : b[i] = 0 THEN <<>>
    ELSE SubSeq(b, CHOOSE i \in 1..Len(b) : b[i] = 1 /\ \A j \in 1..(i - 1) : b[j] = 0,
                Len(b))

\* b with leading zeros up to the length n
PadBits(b, n) == Zeros(n - Len(b)) \o b

\* b with leading zeros up to a whole number of limbs
PadLimbs(b) == PadBits(b, ((Len(b) + LimbBits - 1) \div LimbBits) * LimbBits)

\* the limbs of a bit string of a whole number of limbs
BitsToLimbs(b) ==
    <<>> \o
    [i \in 1..(Len(b) \div LimbBits) |->
        b[10 * i - 9] * 512 + b[10 * i - 8] * 256 + b[10 * i - 7] * 128
        + b[10 * i - 6] * 64 + b[10 * i - 5] * 32 + b[10 * i - 4] * 16
        + b[10 * i - 3] * 8 + b[10 * i - 2] * 4 + b[10 * i - 1] * 2 + b[10 * i]]

LimbsToBits(l) ==
    <<>> \o
    [k \in 1..(LimbBits * Len(l)) |->
        (l[(k - 1) \div LimbBits + 1] \div Pow2(LimbBits - 1 - ((k - 1) % LimbBits))) % 2]

\* a >= b, for strings of bits or limbs of the same length
BitsGeq(a, b) ==
    \/ a = b
    \/ \E i \in 1..Len(a) : a[i] > b[i] /\ \A j \in 1..(i - 1) : a[j] = b[j]

AddStep(x, y, m) ==
    [limbs |-> <<(x + y + m.carry) % Base>> \o m.limbs, carry |-> (x + y + m.carry) \div Base]

RECURSIVE AddLimbs(_, _, _)
\* the limbs from i on of a + b, for limb strings of the same length, and the
\* carry out of them
AddLimbs(a, b, i) ==
    IF i > Len(a) THEN [limbs |-> <<>>, carry |-> 0]
    ELSE AddStep(a[i], b[i], AddLimbs(a, b, i + 1))

\* the limbs of a sum or a product whose carry is less than Base
Carried(m) == <<m.carry>> \o m.limbs

SubStep(x, y, m) ==
    IF x - y - m.carry < 0
    THEN [limbs |-> <<x - y - m.carry + Base>> \o m.limbs, carry |-> 1]
    ELSE [limbs |-> <<x - y - m.carry>> \o m.limbs, carry |-> 0]

RECURSIVE SubLimbs(_, _, _)
\* the limbs from i on of a - b, for limb strings of the same length with
\* a >= b, and the borrow out of them
SubLimbs(a, b, i) ==
    IF i > Len(a) THEN [limbs |-> <<>>, carry |-> 0]
    ELSE SubStep(a[i], b[i], SubLimbs(a, b, i + 1))

MulStep(x, s, m) ==
    [limbs |-> <<(x * s + m.carry) % Base>> \o m.limbs, carry |-> (x * s + m.carry) \div Base]

RECURSIVE MulLimbs(_, _, _, _)
\* the limbs from i on of l * s + c, for a limb string l and integers s >= 0
\* and c >= 0, and the carry out of them
MulLimbs(l, s, c, i) ==
    IF i > Len(l) THEN [limbs |-> <<>>, carry |-> c]
    ELSE MulStep(l[i], s, MulLimbs(l, s, c, i + 1))

\* the limbs of l * s + c
Product(m) == <<m.carry \div Base, m.carry % Base>> \o m.limbs

DivStep(d, x, q) ==
    [quot |-> Append(d.quot, (d.rem * Base + x) \div q), rem |-> (d.rem * Base + x) % q]

RECURSIVE DivLimbs(_, _, _)
\* the quotient and the remainder of the first i limbs of l by the integer
\* q > 0
DivLimbs(l, q, i) ==
    IF i = 0 THEN [quot |-> <<>>, rem |-> 0]
    ELSE DivStep(DivLimbs(l, q, i - 1), l[i], q)

\* b + 1 for a bit string whose last zero is at k
IncAt(b, k) ==
    <<>> \o [i \in 1..Len(b) |-> IF i < k THEN b[i] ELSE IF i = k THEN 1 ELSE 0]

\* b + 1 for a bit string that is not all ones
Inc(b) == IncAt(b, CHOOSE k \in 1..Len(b) : b[k] = 0 /\ \A j \in (k + 1)..Len(b) : b[j] = 1)

\* round to nearest, ties to even: b holds at least MantDig + 1 bits, leading
\* with 1 and the last of exponent e; sticky tells that the exact value has
\* more non-zero bits after them
RoundBits(sign, b, e, sticky) ==
    IF ~(/\ b[MantDig + 1] = 1
         /\ (sticky \/ b[MantDig] = 1 \/ \E j \in (MantDig + 2)..Len(b) : b[j] = 1))
    THEN [sign |-> sign, mant |-> SubSeq(b, 1, MantDig), exp |-> e + Len(b) - MantDig]
    ELSE IF \A j \in 1..MantDig : b[j] = 1
    THEN [sign |-> sign, mant |-> <<1>> \o Zeros(MantDig - 1),
          exp |-> e + Len(b) - MantDig + 1]
    ELSE [sign |-> sign, mant |-> Inc(SubSeq(b, 1, MantDig)), exp |-> e + Len(b) - MantDig]

\* the float nearest to sign * b * 2^e, for a bit string b leading with 1,
\* continued with k zeros
RoundPadded(sign, b, e, k) == RoundBits(sign, b \o Zeros(k), e - k, FALSE)

RoundStripped(sign, b, e) ==
    IF b = <<>> THEN FloatZero
    ELSE RoundPadded(sign, b, e, IF Len(b) > MantDig THEN 0 ELSE MantDig + 1 - Len(b))

\* the float nearest to sign * b * 2^e, for a bit string b
RoundExact(sign, b, e) == RoundStripped(sign, StripZeros(b), e)

RoundDivided(sign, d, e) == RoundBits(sign, StripZeros(LimbsToBits(d.quot)), e, d.rem # 0)

DivAll(l, q) == DivLimbs(l, q, Len(l))

\* rem tells whether a division has left a remainder so far
DivSticky(d, r) == [quot |-> d.quot, rem |-> IF r # 0 THEN 1 ELSE d.rem]

DivNext(d, q) == DivSticky(DivAll(d.quot, q), d.rem)

RECURSIVE DivEach(_, _, _)
\* the quotient of the limb string l by the product of the first i of the
\* divisors qs, one division after the other
DivEach(l, qs, i) ==
    IF i = 0 THEN [quot |-> l, rem |-> 0]
    ELSE DivNext(DivEach(l, qs, i - 1), qs[i])

\* the float nearest to sign * (p / q) * 2^e, for a bit string p leading with
\* 1 and q the product of qs, by the quotient of p * 2^k
RoundShifted(sign, p, qs, e, k) ==
    RoundDivided(sign, DivEach(BitsToLimbs(PadLimbs(p \o Zeros(k))), qs, Len(qs)), e - k)

RoundDividend(sign, p, qs, e) ==
    IF p = <<>> THEN FloatZero
    ELSE RoundShifted(sign, p, qs, e,
                      IF Len(p) > MantDig + DivisorBits * Len(qs) THEN 0
                      ELSE MantDig + 1 + DivisorBits * Len(qs) - Len(p))

\* the float nearest to sign * (p / q) * 2^e, for a bit string p and q the
\* product of the divisors qs, each an integer from 1 to 2^DivisorBits
RoundQuot(sign, p, qs, e) ==
    IF qs = <<>> THEN RoundExact(sign, p, e) ELSE RoundDividend(sign, StripZeros(p), qs, e)

\* n as a sequence of divisors
Divisor(n) == IF n = 1 THEN <<>> ELSE <<n>>

\* p / q of two ints (true division), and float(n) as FromRatio(n, 1)
FromRatio(p, q) == RoundQuot(Sgn(p) * Sgn(q), ToBits(Abs(p)), Divisor(Abs(q)), 0)

\* x * n of a float and an int
FMulInt(x, n) ==
    IF x.sign = 0 THEN FloatZero
    ELSE RoundExact(x.sign * Sgn(n),
                    LimbsToBits(Product(MulLimbs(BitsToLimbs(PadLimbs(x.mant)), Abs(n), 0, 1))),
                    x.exp)

\* x / n of a float and an int that is not zero
FDivInt(x, n) ==
    IF x.sign = 0 THEN FloatZero
    ELSE RoundQuot(x.sign * Sgn(n), x.mant, Divisor(Abs(n)), x.exp)

\* the float nearest to (sa * a + sb * b) * 2^e, for limb strings of the same
\* length
RoundSum(sa, a, sb, b, e) ==
    IF sa = 0 THEN RoundExact(sb, LimbsToBits(b), e)
    ELSE IF sb = 0 THEN RoundExact(sa, LimbsToBits(a), e)
    ELSE IF sa = sb THEN RoundExact(sa, LimbsToBits(Carried(AddLimbs(a, b, 1))), e)
    ELSE IF BitsGeq(a, b) THEN RoundExact(sa, LimbsToBits(SubLimbs(a, b, 1).limbs), e)
    ELSE RoundExact(sb, LimbsToBits(SubLimbs(b, a, 1).limbs), e)

\* the bits of a float and of an int, with the last bits of the same
\* exponent e, brought to the same length
Aligned(sx, xbits, sn, nbits, e) ==
    RoundSum(sx, BitsToLimbs(PadLimbs(PadBits(xbits, IF Len(xbits) > Len(nbits)
                                                     THEN Len(xbits) ELSE Len(nbits)))),
             sn, BitsToLimbs(PadLimbs(PadBits(nbits, IF Len(xbits) > Len(nbits)
                                                     THEN Len(xbits) ELSE Len(nbits)))),
             e)

\* x - n of a float and an int
FSubInt(x, n) ==
    IF x.exp >= 0
    THEN Aligned(x.sign, x.mant \o Zeros(x.exp), 0 - Sgn(n), ToBits(Abs(n)), 0)
    ELSE Aligned(x.sign, x.mant, 0 - Sgn(n), ToBits(Abs(n)) \o Zeros(0 - x.exp), x.exp)

\* |x| >= |y| for floats that are not zero
MagGeq(x, y) == x.exp > y.exp \/ (x.exp = y.exp /\ BitsGeq(x.mant, y.mant))

\* x >= y
FGeq(x, y) ==
    IF x.sign # y.sign THEN x.sign > y.sign
    ELSE IF x.sign = 0 THEN TRUE
    ELSE IF x.sign = 1 THEN MagGeq(x, y)
    ELSE MagGeq(y, x)

(***************************************************************************)
(* Threshold parsing.                                                      *)
(***************************************************************************)
RECURSIVE LStrip(_)
LStrip(s) == IF s # <<>> /\ IsSpace(Head(s)) THEN LStrip(Tail(s)) ELSE s

RECURSIVE RStrip(_)
RStrip(s) ==
    IF s # <<>> /\ IsSpace(s[Len(s)]) THEN RStrip(SubSeq(s, 1, Len(s) - 1)) ELSE s

\* str.strip()
Strip(s) == RStrip(LStrip(s))

RECURSIVE DigitsEnd(_, _)
\* the index after the longest run of [0-9] starting at s[i]
DigitsEnd(s, i) == IF i <= Len(s) /\ IsDigit(s[i]) THEN DigitsEnd(s, i + 1) ELSE i

\* [0-9]+(?:\.[0-9]+)? at s[i]: the index after the match, 0 when there is none
NumberEnd(s, i) ==
    LET j == DigitsEnd(s, i)
    IN  IF j = i THEN 0
        ELSE IF j <= Len(s) /\ s[j] = "." /\ DigitsEnd(s, j + 1) > j + 1
             THEN DigitsEnd(s, j + 1)
             ELSE j

RECURSIVE SpacesEnd(_, _)
\* \s* at s[i]: the index after the match
SpacesEnd(s, i) == IF i <= Len(s) /\ IsSpace(s[i]) THEN SpacesEnd(s, i + 1) ELSE i

\* s[i..] is exactly word, up to case when ignorecase
RestIs(s, i, word, ignorecase) ==
    /\ Len(s) - i + 1 = Len(word)
    /\ \A k \in 1..Len(word) :
          IF ignorecase THEN ToLower(s[i + k - 1]) = ToLower(word[k])
          ELSE s[i + k - 1] = word[k]

RECURSIVE Pow10(_)
Pow10(n) == IF n = 0 THEN 1 ELSE 10 * Pow10(n - 1)

\* the number written by the digits of s[i..j-1], a "." left out, in limbs
\* with the carry of the last digit
RECURSIVE DecimalLimbs(_, _, _)
DecimalLimbs(s, i, j) ==
    IF j <= i THEN [limbs |-> <<>>, carry |-> 0]
    ELSE IF s[j - 1] = "." THEN DecimalLimbs(s, i, j - 1)
    ELSE MulLimbs(Carried(DecimalLimbs(s, i, j - 1)), 10, DigitVal(s[j - 1]), 1)

\* the digits after the "." of the [0-9]+(\.[0-9]+)? numeral s[i..j-1]
FractionDigits(s, i, j) == IF DigitsEnd(s, i) = j THEN 0 ELSE j - DigitsEnd(s, i) - 1

\* 10^n as divisors of at most five digits
PowersOfTen(n) ==
    <<>> \o [i \in 1..((n + 4) \div 5) |-> IF 5 * i <= n THEN 100000 ELSE Pow10(n % 5)]

\* float(s[i..j-1]) of a [0-9]+(\.[0-9]+)? numeral: the float nearest to it
FloatOf(s, i, j) ==
    RoundQuot(1, LimbsToBits(Carried(DecimalLimbs(s, i, j))),
              PowersOfTen(FractionDigits(s, i, j)), 0)

\* ^\$([0-9]+(?:\.[0-9]+)?)\s*remaining$, re.IGNORECASE
match_dollars(at) ==
    /\ Len(at) >= 1 /\ at[1] = "$"
    /\ NumberEnd(at, 2) # 0
    /\ RestIs(at, SpacesEnd(at, NumberEnd(at, 2)), <<"r", "e", "m", "a", "i", "n", "i", "n", "g">>, TRUE)

\* ^([0-9]+(?:\.[0-9]+)?)\s*%\s*over$, re.IGNORECASE
match_percent_over(at) ==
    /\ NumberEnd(at, 1) # 0
    /\ LET p == SpacesEnd(at, NumberEnd(at, 1))
       IN  /\ p <= Len(at) /\ at[p] = "%"
           /\ RestIs(at, SpacesEnd(at, p + 1), <<"o", "v", "e", "r">>, TRUE)

\* ^([0-9]+(?:\.[0-9]+)?)%$
match_percent(at) ==
    /\ NumberEnd(at, 1) # 0
    /\ RestIs(at, NumberEnd(at, 1), <<"%">>, FALSE)

NoValue == FloatZero

\* parse_threshold(at_value): [err, type, value]; err = "ValueError" when it raises
parse_threshold(at_value) ==
    LET at == Strip(at_value)
    IN  IF match_dollars(at)
        THEN [err |-> "", type |-> "dollars_remaining", value |-> FloatOf(at, 2, NumberEnd(at, 2))]
        ELSE IF match_percent_over(at)
        THEN [err |-> "", type |-> "percent_over", value |-> FloatOf(at, 1, NumberEnd(at, 1))]
        ELSE IF match_percent(at)
        THEN [err |-> "", type |-> "percent_spent", value |-> FloatOf(at, 1, NumberEnd(at, 1))]
        ELSE [err |-> "ValueError", type |-> "", value |-> NoValue]

(***************************************************************************)
(* Cooldown state: {"fired": {"YYYY-MM": {"category:trigger": iso}}}.      *)
(***************************************************************************)
\* f"{category_name}:{trigger_key}"
StateKey(category_name, trigger_key) == category_name \o <<":">> \o trigger_key

\* should_alert with > for >=
should_alert_strict(state, category_name, trigger_key, min_hours, now) ==
    LET month == current_month_key(now)
        last_fired_str == GetOpt(Get(Get(state, "fired", EmptyDict), month, EmptyDict),
                                 StateKey(category_name, trigger_key))
    IN  [ret |-> IF last_fired_str = None THEN TRUE
                 ELSE MinutesBetween(now, fromisoformat(last_fired_str[1])) > HoursDelta(min_hours),
         state |-> state]

\* should_alert counting the time since the last firing in days, the day of
\* the firing included
should_alert_whole_days(state, category_name, trigger_key, min_hours, now) ==
    LET month == current_month_key(now)
        last_fired_str == GetOpt(Get(Get(state, "fired", EmptyDict), month, EmptyDict),
                                 StateKey(category_name, trigger_key))
    IN  [ret |-> IF last_fired_str = None THEN TRUE
                 ELSE (MinutesBetween(now, fromisoformat(last_fired_str[1])) \div 1440 + 1) * 24
                          >= min_hours,
         state |-> state]

\* should_alert reading the last firing of any month, not of now's month
should_alert_any_month(state, category_name, trigger_key, min_hours, now) ==
    LET fired == Get(state, "fired", EmptyDict)
        key == StateKey(category_name, trigger_key)
        months == {m \in DOMAIN fired : key \in DOMAIN fired[m]}
    IN  [ret |-> \A m \in months :
                    MinutesBetween(now, fromisoformat(fired[m][key])) >= HoursDelta(min_hours),
         state |-> state]

\* should_alert reading with setdefault: the lookup inserts "fired" and the
\* month bucket when they are missing
should_alert_setdefault(state, category_name, trigger_key, min_hours, now) ==
    LET month == current_month_key(now)
        s1 == SetDefault(state, "fired", EmptyDict)
        s2 == [s1 EXCEPT !["fired"] = SetDefault(@, month, EmptyDict)]
        last_fired_str == GetOpt(s2["fired"][month], StateKey(category_name, trigger_key))
    IN  [ret |-> IF last_fired_str = None THEN TRUE
                 ELSE MinutesBetween(now, fromisoformat(last_fired_str[1])) >= HoursDelta(min_hours),
         state |-> s2]

\* should_alert recording the firing itself when it answers True
should_alert_and_record(state, category_name, trigger_key, min_hours, now) ==
    LET month == current_month_key(now)
        last_fired_str == GetOpt(Get(Get(state, "fired", EmptyDict), month, EmptyDict),
                                 StateKey(category_name, trigger_key))
        ret == IF last_fired_str = None THEN TRUE
               ELSE MinutesBetween(now, fromisoformat(last_fired_str[1])) >= HoursDelta(min_hours)
        s1 == SetDefault(state, "fired", EmptyDict)
        s2 == [s1 EXCEPT !["fired"] = SetDefault(@, month, EmptyDict)]
    IN  [ret |-> ret,
         state |-> IF ret
                   THEN [s2 EXCEPT !["fired"][month] =
                            SetItem(@, StateKey(category_name, trigger_key), isoformat(now))]
                   ELSE state]

\* should_alert(state, category_name, trigger_key, min_hours, now): the value
\* returned and the state argument as the call leaves it
should_alert(state, category_name, trigger_key, min_hours, now) ==
    LET month == current_month_key(now)
        last_fired_str == GetOpt(Get(Get(state, "fired", EmptyDict), month, EmptyDict),
                                 StateKey(category_name, trigger_key))
    IN  [ret |-> IF last_fired_str = None THEN TRUE
                 ELSE MinutesBetween(now, fromisoformat(last_fired_str[1])) >= HoursDelta(min_hours),
         state |-> state]

\* record_firing keeping an entry that is already there
record_firing_keep_first(state, category_name, trigger_key, now) ==
    LET month == current_month_key(now)
        s1 == SetDefault(state, "fired", EmptyDict)
        s2 == [s1 EXCEPT !["fired"] = SetDefault(@, month, EmptyDict)]
    IN  [s2 EXCEPT !["fired"][month] =
                       SetDefault(@, StateKey(category_name, trigger_key), isoformat(now))]

\* record_firing(state, category_name, trigger_key, now): the state it leaves
record_firing(state, category_name, trigger_key, now) ==
    LET month == current_month_key(now)
        s1 == SetDefault(state, "fired", EmptyDict)
        s2 == [s1 EXCEPT !["fired"] = SetDefault(@, month, EmptyDict)]
    IN  [s2 EXCEPT !["fired"][month] =
                       SetItem(@, StateKey(category_name, trigger_key), isoformat(now))]

\* prune_old_months with <= for <: the current month is dropped too
prune_old_months_le(state, now) ==
    LET month == current_month_key(now)
        fired == Get(state, "fired", EmptyDict)
        old_keys == {k \in DOMAIN fired : StrLess(k, month) \/ k = month}
    IN  IF "fired" \in DOMAIN state
        THEN [state EXCEPT !["fired"] = DelKeys(@, old_keys)]
        ELSE state

\* prune_old_months(state, now): the state it leaves
prune_old_months(state, now) ==
    LET month == current_month_key(now)
        fired == Get(state, "fired", EmptyDict)
        old_keys == {k \in DOMAIN fired : StrLess(k, month)}
    IN  IF "fired" \in DOMAIN state
        THEN [state EXCEPT !["fired"] = DelKeys(@, old_keys)]
        ELSE state

(***************************************************************************)
(* Low-level rule evaluation.  A category is [goal_target, activity,       *)
(* balance] with goal_target None or <<milliunits>>; a trigger is a dict   *)
(* with the key "at".                                                      *)
(***************************************************************************)
\* milliunits_to_dollars(mu): mu / 1000.0
milliunits_to_dollars(mu) == FromRatio(mu, 1000)

\* (activity / goal_target) * 100 if goal_target != 0 else 100.0
percent_spent(activity, goal_target) ==
    IF goal_target # 0 THEN FMulInt(FromRatio(activity, goal_target), 100)
    ELSE FromRatio(100, 1)

\* the comparison of evaluate_goal_threshold, th being what parse_threshold gave
goal_threshold_met(goal_target, activity, balance, th) ==
    IF th.err # "" THEN [err |-> th.err, ret |-> FALSE]
    ELSE IF th.type = "percent_spent"
    THEN [err |-> "", ret |-> FGeq(percent_spent(activity, goal_target), th.value)]
    ELSE IF th.type = "dollars_remaining"
    THEN [err |-> "", ret |-> FGeq(th.value, milliunits_to_dollars(balance))]
    ELSE [err |-> "", ret |-> FALSE]

\* evaluate_goal_threshold answering False for an expression that does not parse
evaluate_goal_threshold_swallow(category, trigger) ==
    IF category.goal_target = None \/ parse_threshold(trigger.at).err # ""
    THEN [err |-> "", ret |-> FALSE]
    ELSE goal_threshold_met(category.goal_target[1], category.activity, category.balance,
                            parse_threshold(trigger.at))

\* evaluate_goal_threshold(category, trigger): [err, ret]
evaluate_goal_threshold(category, trigger) ==
    IF category.goal_target = None THEN [err |-> "", ret |-> FALSE]
    ELSE goal_threshold_met(category.goal_target[1], category.activity, category.balance,
                            parse_threshold(trigger.at))

\* pacing_met answering False, without error, for an expression of another kind
pacing_met_any_kind(activity, goal_target, days_in_month, days_elapsed, th) ==
    IF th.err # "" THEN [err |-> th.err, fired |-> FALSE, context |-> EmptyDict]
    ELSE [err |-> "", fired |-> FALSE, context |-> EmptyDict]

\* goal_target * (days_elapsed / days_in_month)
expected_spend(goal_target, days_in_month, days_elapsed) ==
    FMulInt(FromRatio(days_elapsed, days_in_month), goal_target)

\* activity * (days_in_month / days_elapsed)
projected_eom(activity, days_in_month, days_elapsed) ==
    FMulInt(FromRatio(days_in_month, days_elapsed), activity)

\* ((projected_eom - goal_target) / goal_target) * 100
percent_over(projected, goal_target) ==
    FMulInt(FDivInt(FSubInt(projected, goal_target), goal_target), 100)

\* pacing_return giving the context only when the trigger fired
pacing_return_context_when_fired(activity, goal_target, days_in_month, days_elapsed, projected, pct, th) ==
    [err |-> "",
     fired |-> FGeq(pct, th.value),
     context |-> IF FGeq(pct, th.value)
                 THEN [activity |-> activity,
                       goal_target |-> goal_target,
                       expected_spend |-> expected_spend(goal_target, days_in_month, days_elapsed),
                       projected_eom |-> projected,
                       percent_over |-> pct,
                       days_elapsed |-> days_elapsed,
                       days_in_month |-> days_in_month]
                 ELSE EmptyDict]

\* what evaluate_pacing returns for a percent-over threshold th and the
\* projection pct
pacing_return(activity, goal_target, days_in_month, days_elapsed, projected, pct, th) ==
    [err |-> "",
     fired |-> FGeq(pct, th.value),
     context |-> [activity |-> activity,
                  goal_target |-> goal_target,
                  expected_spend |-> expected_spend(goal_target, days_in_month, days_elapsed),
                  projected_eom |-> projected,
                  percent_over |-> pct,
                  days_elapsed |-> days_elapsed,
                  days_in_month |-> days_in_month]]

pacing_result(activity, goal_target, days_in_month, days_elapsed, projected, th) ==
    pacing_return(activity, goal_target, days_in_month, days_elapsed, projected,
                  percent_over(projected, goal_target), th)

\* the projection of evaluate_pacing and its comparison, th being what
\* parse_threshold gave
pacing_met(activity, goal_target, days_in_month, days_elapsed, th) ==
    IF th.err # "" THEN [err |-> th.err, fired |-> FALSE, context |-> EmptyDict]
    ELSE IF th.type # "percent_over"
    THEN [err |-> "ValueError", fired |-> FALSE, context |-> EmptyDict]
    ELSE pacing_result(activity, goal_target, days_in_month, days_elapsed,
                       projected_eom(activity, days_in_month, days_elapsed), th)

\* evaluate_pacing parsing the expression before it looks at the limit
evaluate_pacing_parse_first(category, trigger, now) ==
    IF parse_threshold(trigger.at).err # ""
    THEN [err |-> "ValueError", fired |-> FALSE, context |-> EmptyDict]
    ELSE [err |-> "", fired |-> FALSE, context |-> EmptyDict]

\* evaluate_pacing(category, trigger, now): [err, fired, context]
evaluate_pacing(category, trigger, now) ==
    IF category.goal_target = None \/ category.goal_target = <<0>>
    THEN [err |-> "", fired |-> FALSE, context |-> EmptyDict]
    ELSE pacing_met(category.activity, category.goal_target[1],
                    DaysInMonth(now.year, now.month),
                    IF now.day > 1 THEN now.day ELSE 1,
                    parse_threshold(trigger.at))

(***************************************************************************)
(* Rule-level evaluation.  Each evaluator gives [err, firings, state]:     *)
(* the error it raises if any, the list it returns, and the state argument *)
(* as it leaves it.  hours_into_month is carried in minutes.               *)
(***************************************************************************)
\* rule.get("min_hours_between_alerts", 744) of a goal_threshold rule
DefaultGoalMinHours == 744

\* rule.get("min_hours_between_alerts", 24) of a pacing rule
DefaultPacingMinHours == 24

\* rule.get("warm_up_hours", 72)
DefaultWarmUpHours == 72

Firing(category_name, trigger, ynab_category, pacing_context) ==
    [category_name |-> category_name, trigger |-> trigger,
     ynab_category |-> ynab_category, pacing_context |-> pacing_context]

Raised(e, state) == [err |-> e, firings |-> <<>>, state |-> state]

\* goal_threshold_trigger evaluating the trigger whatever should_alert gave
goal_threshold_trigger_ignores_cooldown(category_name, trigger, ynab_category, acc, sa, ev) ==
    IF ev.err # "" THEN Raised(ev.err, sa.state)
    ELSE [acc EXCEPT !.state = sa.state,
                     !.firings = IF ev.ret
                                 THEN Append(@, Firing(category_name, trigger,
                                                       ynab_category, EmptyDict))
                                 ELSE @]

\* one turn of the loop of evaluate_goal_threshold_rule: sa is what
\* should_alert gave, ev what evaluate_goal_threshold gives
goal_threshold_trigger(category_name, trigger, ynab_category, acc, sa, ev) ==
    IF ~sa.ret THEN [acc EXCEPT !.state = sa.state]
    ELSE IF ev.err # "" THEN Raised(ev.err, sa.state)
    ELSE [acc EXCEPT !.state = sa.state,
                     !.firings = IF ev.ret
                                 THEN Append(@, Firing(category_name, trigger,
                                                       ynab_category, EmptyDict))
                                 ELSE @]

RECURSIVE goal_threshold_triggers(_, _, _, _, _, _, _)
\* the loop over rule["triggers"] of evaluate_goal_threshold_rule, from
\* trigger i; an error raised ends it
goal_threshold_triggers(category_name, triggers, min_hours, ynab_category, now, i, acc) ==
    IF i > Len(triggers) \/ acc.err # "" THEN acc
    ELSE goal_threshold_triggers(
             category_name, triggers, min_hours, ynab_category, now, i + 1,
             goal_threshold_trigger(
                 category_name, triggers[i], ynab_category, acc,
                 should_alert(acc.state, category_name, triggers[i].at, min_hours, now),
                 evaluate_goal_threshold(ynab_category, triggers[i])))

\* evaluate_goal_threshold_rule(category_name, rule, ynab_category, state, now)
evaluate_goal_threshold_rule(category_name, rule, ynab_category, state, now) ==
    IF ynab_category.goal_target = None
    THEN [err |-> "", firings |-> <<>>, state |-> state]
    ELSE goal_threshold_triggers(category_name, Get(rule, "triggers", <<>>),
                                 Get(rule, "min_hours_between_alerts", DefaultGoalMinHours),
                                 ynab_category, now, 1,
                                 [err |-> "", firings |-> <<>>, state |-> state])

\* one turn of the loop of evaluate_pacing_rule: sa is what should_alert gave,
\* ev what evaluate_pacing gives
pacing_trigger(category_name, trigger, ynab_category, acc, sa, ev) ==
    IF ~sa.ret THEN [acc EXCEPT !.state = sa.state]
    ELSE IF ev.err # "" THEN Raised(ev.err, sa.state)
    ELSE [acc EXCEPT !.state = sa.state,
                     !.firings = IF ev.fired
                                 THEN Append(@, Firing(category_name, trigger,
                                                       ynab_category, ev.context))
                                 ELSE @]

RECURSIVE pacing_triggers(_, _, _, _, _, _, _)
\* the loop over rule["triggers"] of evaluate_pacing_rule, from trigger i; an
\* error raised ends it
pacing_triggers(category_name, triggers, min_hours, ynab_category, now, i, acc) ==
    IF i > Len(triggers) \/ acc.err # "" THEN acc
    ELSE pacing_triggers(
             category_name, triggers, min_hours, ynab_category, now, i + 1,
             pacing_trigger(
                 category_name, triggers[i], ynab_category, acc,
                 should_alert(acc.state, category_name, triggers[i].at, min_hours, now),
                 evaluate_pacing(ynab_category, triggers[i], now)))

\* evaluate_pacing_rule without its warm-up guard
evaluate_pacing_rule_no_warm_up(category_name, rule, ynab_category, state, now, minutes) ==
    pacing_triggers(category_name, Get(rule, "triggers", <<>>),
                    Get(rule, "min_hours_between_alerts", DefaultPacingMinHours),
                    ynab_category, now, 1,
                    [err |-> "", firings |-> <<>>, state |-> state])

\* evaluate_pacing_rule(category_name, rule, ynab_category, state, now,
\* hours_into_month), with hours_into_month = minutes_into_month / 60
evaluate_pacing_rule(category_name, rule, ynab_category, state, now, minutes_into_month) ==
    IF minutes_into_month < Get(rule, "warm_up_hours", DefaultWarmUpHours) * 60
    THEN [err |-> "", firings |-> <<>>, state |-> state]
    ELSE pacing_triggers(category_name, Get(rule, "triggers", <<>>),
                         Get(rule, "min_hours_between_alerts", DefaultPacingMinHours),
                         ynab_category, now, 1,
                         [err |-> "", firings |-> <<>>, state |-> state])

(***************************************************************************)
(* Category-level evaluation (dispatcher).                                 *)
(***************************************************************************)
\* the keys of RULE_EVALUATORS
RuleTypes == {"goal_threshold", "pacing"}

\* (now - datetime(now.year, now.month, 1)).total_seconds() / 60
MinutesIntoMonth(now) ==
    MinutesBetween(now, [year |-> now.year, month |-> now.month, day |-> 1,
                         hour |-> 0, minute |-> 0])

\* category_rule raising for a rule type that RULE_EVALUATORS does not hold
category_rule_unknown_raises(rule_type, acc, r) ==
    IF rule_type \notin RuleTypes THEN Raised("KeyError", acc.state)
    ELSE IF r.err # "" THEN Raised(r.err, r.state)
    ELSE [acc EXCEPT !.state = r.state, !.firings = @ \o r.firings]

\* one turn of the loop of evaluate_category: r is what the rule's evaluator
\* gives
\* category_rule, had evaluate_category put a rule's Firings before those of
\* the rules evaluated earlier
category_rule_prepends(rule_type, acc, r) ==
    IF rule_type \notin RuleTypes THEN acc
    ELSE IF r.err # "" THEN Raised(r.err, r.state)
    ELSE [acc EXCEPT !.state = r.state, !.firings = r.firings \o @]

category_rule(rule_type, acc, r) ==
    IF rule_type \notin RuleTypes THEN acc
    ELSE IF r.err # "" THEN Raised(r.err, r.state)
    ELSE [acc EXCEPT !.state = r.state, !.firings = @ \o r.firings]

RECURSIVE category_rules(_, _, _, _, _, _)
\* the loop over cat_config["rules"] of evaluate_category, from rule i; an
\* error raised ends it
category_rules(category_name, rules, ynab_category, now, i, acc) ==
    IF i > Len(rules) \/ acc.err # "" THEN acc
    ELSE category_rules(
             category_name, rules, ynab_category, now, i + 1,
             category_rule(
                 rules[i]["type"], acc,
                 IF rules[i]["type"] = "pacing"
                 THEN evaluate_pacing_rule(category_name, rules[i], ynab_category, acc.state,
                                           now, MinutesIntoMonth(now))
                 ELSE evaluate_goal_threshold_rule(category_name, rules[i], ynab_category,
                                                   acc.state, now)))

\* evaluate_category without its test of cat_config["enabled"]
evaluate_category_ignores_enabled(category_name, cat_config, ynab_category, state, now) ==
    category_rules(category_name, Get(cat_config, "rules", <<>>), ynab_category, now, 1,
                   [err |-> "", firings |-> <<>>, state |-> state])

\* evaluate_category(category_name, cat_config, ynab_category, state, now)
evaluate_category(category_name, cat_config, ynab_category, state, now) ==
    IF ~Get(cat_config, "enabled", TRUE)
    THEN [err |-> "", firings |-> <<>>, state |-> state]
    ELSE category_rules(category_name, Get(cat_config, "rules", <<>>), ynab_category, now, 1,
                        [err |-> "", firings |-> <<>>, state |-> state])

(***************************************************************************)
(* The state specification: record_firing and prune_old_months applied to  *)
(* one state object, in any order and at any instants.  main records only  *)
(* triggers that fired, so the recorded expressions are valid ones;        *)
(* should_alert is also asked about expressions that do not parse.         *)
(***************************************************************************)
\* category names: "A" and "A:7"
CatNames == {<<"A">>, <<"A", ":", "7">>}

\* trigger expressions: "5%" and "7:5%"
TrigKeys == {<<"5", "%">>, <<"7", ":", "5", "%">>}

ValidTrigKeys == {t \in TrigKeys : parse_threshold(t).err = ""}

\* min_hours_between_alerts of the rules
CooldownHours == {1, 2}

\* the variables of a specification that is not running
StateIdle == st = EmptyDict /\ fireLog = <<>>

EvalIdle == evalIn = EmptyDict /\ evalState = EmptyDict /\ evalCalls = <<>>

MainIdle ==
    /\ config = EmptyDict /\ clock = 0 /\ store = EmptyDict /\ runs = <<>>
    /\ started = 0 /\ sent = <<>> /\ writes = <<>>

StateInit ==
    /\ st = EmptyDict
    /\ fireLog = <<>>
    /\ EvalIdle
    /\ MainIdle

RecordFiring(c, t, now) ==
    /\ Len(fireLog) < MaxOps
    /\ st' = record_firing(st, c, t, now)
    /\ fireLog' = Append(fireLog, [op |-> "record_firing", c |-> c, t |-> t, now |-> now,
                                   before |-> st])
    /\ UNCHANGED <<evalVars, mainVars>>

PruneOldMonths(now) ==
    /\ Len(fireLog) < MaxOps
    /\ st' = prune_old_months(st, now)
    /\ fireLog' = Append(fireLog, [op |-> "prune_old_months", c |-> <<>>, t |-> <<>>,
                                   now |-> now, before |-> st])
    /\ UNCHANGED <<evalVars, mainVars>>

StateNext ==
    \/ \E c \in CatNames, t \in ValidTrigKeys, now \in Instants : RecordFiring(c, t, now)
    \/ \E now \in Instants : PruneOldMonths(now)

SpecState == StateInit /\ [][StateNext]_vars

(***************************************************************************)
(* The evaluation specification: the evaluators applied, one call after    *)
(* the other, to arguments drawn at the start: a category name, a category *)
(* config, a snapshot, an instant, and a state that is empty or holds one  *)
(* recorded firing.                                                        *)
(***************************************************************************)
at5 == <<"5", "%">>

atOver == <<"5", "%", " ", "o", "v", "e", "r">>

atBad == <<"7", ":", "5", "%">>

atRemaining == <<"$", "2", "0", "0", " ", "r", "e", "m", "a", "i", "n", "i", "n", "g">>

Trigger(at) == [at |-> at, severity |-> "warning"]

GoalRule(ats, h) ==
    [type |-> "goal_threshold", min_hours_between_alerts |-> h,
     triggers |-> [i \in 1..Len(ats) |-> Trigger(ats[i])]]

PacingRule(ats, w) ==
    [type |-> "pacing", warm_up_hours |-> w, min_hours_between_alerts |-> 1,
     triggers |-> [i \in 1..Len(ats) |-> Trigger(ats[i])]]

\* a rule of a kind RULE_EVALUATORS does not know
OtherRule == [type |-> "balance_floor", triggers |-> <<Trigger(at5)>>]

\* a goal_threshold rule without min_hours_between_alerts
BareGoalRule == [type |-> "goal_threshold", triggers |-> <<Trigger(at5)>>]

\* a pacing rule without warm_up_hours and min_hours_between_alerts
BarePacingRule == [type |-> "pacing", triggers |-> <<Trigger(atOver)>>]

EvalConfigs ==
    {[rules |-> <<GoalRule(<<at5, atBad>>, 1)>>],
     [rules |-> <<GoalRule(<<atBad, at5>>, 2)>>],
     [rules |-> <<GoalRule(<<at5>>, 1), GoalRule(<<at5>>, 2)>>],
     [rules |-> <<PacingRule(<<atOver, atBad>>, 1), GoalRule(<<at5>>, 1)>>],
     [rules |-> <<BareGoalRule, OtherRule, BarePacingRule>>],
     [enabled |-> TRUE, rules |-> <<PacingRule(<<atOver>>, 0), GoalRule(<<atOver, at5>>, 1)>>],
     [enabled |-> FALSE, rules |-> <<GoalRule(<<at5, atBad>>, 1)>>],
     [rules |-> <<GoalRule(<<atRemaining, at5>>, 1), PacingRule(<<atOver>>, 0)>>]}

Snapshot(g, a, b) == [goal_target |-> g, activity |-> a, balance |-> b]

Snapshots ==
    {Snapshot(None, 800, 200), Snapshot(<<0>>, 0, 0), Snapshot(<<1000>>, 800, 200),
     Snapshot(<<1000>>, 1100, -100), Snapshot(<<1000>>, 0, 1000)}

\* the states a run can hand to the evaluators at the instant now: what
\* load_state gives when the file is missing, or a state with a firing recorded
\* by an earlier run, up to two hours before
EvalStates(now) ==
    {EmptyDict} \cup
    {record_firing(EmptyDict, p[1], p[2], T) :
        p \in {<<<<"A">>, at5>>, <<<<"A">>, atOver>>, <<<<"A", ":", "7">>, at5>>},
        T \in {x \in Instants : MinutesBetween(now, x) \in {0, 30, 60, 120}}}

EvalInit ==
    /\ evalIn \in [category_name : {<<"A">>}, cat_config : EvalConfigs,
                   ynab_category : Snapshots, now : Instants]
    /\ evalState \in EvalStates(evalIn.now)
    /\ evalCalls = <<>>
    /\ StateIdle
    /\ MainIdle

\* a call giving r = [err, ret, state], and then the same call again
Call(fn, arg, r) ==
    /\ Len(evalCalls) < MaxCalls
    /\ evalCalls # <<>> => (evalCalls[1].fn = fn /\ evalCalls[1].arg = arg)
    /\ evalState' = r.state
    /\ evalCalls' = Append(evalCalls, [fn |-> fn, arg |-> arg, before |-> evalState,
                                       after |-> r.state, err |-> r.err, ret |-> r.ret])
    /\ UNCHANGED <<evalIn, stateVars, mainVars>>

\* what should_alert gives, as a call outcome: it raises nothing
Answered(r) == [err |-> "", ret |-> r.ret, state |-> r.state]

\* what an evaluator gives, as a call outcome: it returns its Firings
Returned(r) == [err |-> r.err, ret |-> r.firings, state |-> r.state]

EvalRules == Get(evalIn.cat_config, "rules", <<>>)

CallShouldAlert(t, h) ==
    Call("should_alert", <<t, h>>,
         Answered(should_alert(evalState, evalIn.category_name, t, h, evalIn.now)))

CallGoalThresholdRule(i) ==
    /\ EvalRules[i]["type"] = "goal_threshold"
    /\ Call("evaluate_goal_threshold_rule", <<i, 0>>,
            Returned(evaluate_goal_threshold_rule(evalIn.category_name, EvalRules[i],
                                                  evalIn.ynab_category, evalState, evalIn.now)))

CallPacingRule(i, m) ==
    /\ EvalRules[i]["type"] = "pacing"
    /\ Call("evaluate_pacing_rule", <<i, m>>,
            Returned(evaluate_pacing_rule(evalIn.category_name, EvalRules[i],
                                          evalIn.ynab_category, evalState, evalIn.now, m)))

CallEvaluateCategory ==
    Call("evaluate_category", <<0, 0>>,
         Returned(evaluate_category(evalIn.category_name, evalIn.cat_config,
                                    evalIn.ynab_category, evalState, evalIn.now)))

\* minutes into the month around the warm-up hours of the rules: 0 h, 1 h,
\* 71.5 h and 72 h
WarmUpMinutes == {0, 60, DefaultWarmUpHours * 60 - 30, DefaultWarmUpHours * 60}

EvalNext ==
    \/ \E t \in {at5, atOver, atBad}, h \in CooldownHours : CallShouldAlert(t, h)
    \/ \E i \in 1..Len(EvalRules) : CallGoalThresholdRule(i)
    \/ \E i \in 1..Len(EvalRules), m \in WarmUpMinutes \cup {MinutesIntoMonth(evalIn.now)} :
          CallPacingRule(i, m)
    \/ CallEvaluateCategory

SpecEval == EvalInit /\ [][EvalNext]_vars

(***************************************************************************)
(* The calculation specification: evaluate_goal_threshold and              *)
(* evaluate_pacing applied to a snapshot, a trigger and an instant drawn   *)
(* at the start.                                                           *)
(***************************************************************************)
\* "5%", "100%", "101%", "115%", "$200 remaining", "$0.2 remaining",
\* "5% over", "20% over", "25% over", "115% over", "7:5%"
NameA == <<"A">>

NameB == <<"B">>

CalcExpressions ==
    {<<"5", "%">>,
     <<"1", "0", "0", "%">>,
     <<"1", "0", "1", "%">>,
     <<"1", "1", "5", "%">>,
     <<"1", "0", "0", ".", "0", "0", "0", "0", "0", "0", "0", "0", "0", "0", "0", "0", "0",
       "0", "1", "%">>,
     <<"$", "2", "0", "0", " ", "r", "e", "m", "a", "i", "n", "i", "n", "g">>,
     <<"$", "0", ".", "2", " ", "r", "e", "m", "a", "i", "n", "i", "n", "g">>,
     <<"5", "%", " ", "o", "v", "e", "r">>,
     <<"2", "0", "%", " ", "o", "v", "e", "r">>,
     <<"2", "5", "%", " ", "o", "v", "e", "r">>,
     <<"1", "1", "5", "%", " ", "o", "v", "e", "r">>,
     <<"7", ":", "5", "%">>}

CalcSnapshots ==
    {Snapshot(None, 800, 200), Snapshot(<<0>>, 0, 0), Snapshot(<<0>>, 50, 300),
     Snapshot(<<1000>>, 800, 200), Snapshot(<<20>>, 23, -3), Snapshot(<<1000>>, 600, 400),
     Snapshot(<<1000>>, 2150, -1150), Snapshot(<<1000>>, 1000, 0)}

\* day 15 of a 30-day month, the last day of a 31-day month, the first day of
\* a month, the last day of a leap February
CalcInstants ==
    {[year |-> 2026, month |-> 11, day |-> 15, hour |-> 12, minute |-> 0],
     Epoch,
     [year |-> 2027, month |-> 1, day |-> 1, hour |-> 0, minute |-> 30],
     [year |-> 2028, month |-> 2, day |-> 29, hour |-> 8, minute |-> 0]}

CalcInit ==
    /\ evalIn \in [ynab_category : CalcSnapshots,
                   trigger : {Trigger(at) : at \in CalcExpressions},
                   now : CalcInstants]
    /\ evalState = EmptyDict
    /\ evalCalls = <<>>
    /\ StateIdle
    /\ MainIdle

\* what evaluate_goal_threshold gives, as a call outcome
Decided(r) == [err |-> r.err, ret |-> r.ret, state |-> evalState]

\* what evaluate_pacing gives, as a call outcome: the tuple it returns
Projected(r) == [err |-> r.err, ret |-> <<r.fired, r.context>>, state |-> evalState]

CallGoalThreshold ==
    Call("evaluate_goal_threshold", <<0, 0>>,
         Decided(evaluate_goal_threshold(evalIn.ynab_category, evalIn.trigger)))

CallPacing ==
    Call("evaluate_pacing", <<0, 0>>,
         Projected(evaluate_pacing(evalIn.ynab_category, evalIn.trigger, evalIn.now)))

\* evaluate_goal_threshold_rule for a rule with the one trigger drawn at the
\* start, on a state without firings
CallCalcGoalRule ==
    Call("evaluate_goal_threshold_rule", <<0, 0>>,
         Returned(evaluate_goal_threshold_rule(
                      NameA, [type |-> "goal_threshold", triggers |-> <<evalIn.trigger>>],
                      evalIn.ynab_category, evalState, evalIn.now)))

\* evaluate_pacing_rule for a rule with the one trigger drawn at the start
\* and no warm-up, on a state without firings
CallCalcPacingRule ==
    Call("evaluate_pacing_rule", <<0, 0>>,
         Returned(evaluate_pacing_rule(
                      NameA,
                      [type |-> "pacing", warm_up_hours |-> 0, triggers |-> <<evalIn.trigger>>],
                      evalIn.ynab_category, evalState, evalIn.now,
                      MinutesIntoMonth(evalIn.now))))

CalcNext ==
    \/ CallGoalThreshold
    \/ CallPacing
    \/ CallCalcGoalRule
    \/ CallCalcPacingRule

SpecCalc == CalcInit /\ [][CalcNext]_vars

(***************************************************************************)
(* The run specifications: runs of main against one state file.  A dict    *)
(* that main iterates is a list of <<key, value>> pairs in insertion       *)
(* order.  The file's sha is the hash of its content, modelled as the      *)
(* content itself; its content is the JSON text of the state, which        *)
(* json.loads turns back into the same dict of strings.                    *)
(***************************************************************************)
Keys(items) == {items[i][1] : i \in 1..Len(items)}

\* cat_map.get(cat_name)
Lookup(items, k) ==
    IF k \in Keys(items)
    THEN <<items[CHOOSE i \in 1..Len(items) : items[i][1] = k][2]>>
    ELSE None

RECURSIVE auto_detect(_, _, _, _, _)
\* the loop over cat_map.items() of build_final_category_config, from item i
auto_detect(final_categories, cat_map, exclude_list, default_rules, i) ==
    IF i > Len(cat_map) THEN final_categories
    ELSE LET cat_name == cat_map[i][1]
             ynab_cat == cat_map[i][2]
         IN  IF \/ cat_name \in Keys(final_categories)
                \/ cat_name \in exclude_list
                \/ ynab_cat.goal_target = None
             THEN auto_detect(final_categories, cat_map, exclude_list, default_rules, i + 1)
             ELSE auto_detect(
                      Append(final_categories,
                             <<cat_name, [enabled |-> TRUE, rules |-> default_rules]
                                         @@ ("_auto_detected" :> TRUE)>>),
                      cat_map, exclude_list, default_rules, i + 1)

\* build_final_category_config, had an auto-detected category taken the place
\* of the explicit entry of the same name
build_final_category_config_auto_wins(cfg, cat_map) ==
    LET final_categories == Get(cfg, "categories", <<>>)
        auto_alerts_config == Get(cfg, "auto_alerts", EmptyDict)
        exclude_list == Get(auto_alerts_config, "exclude", {})
        default_rules == Get(auto_alerts_config, "rules", <<>>)
        detected == auto_detect(<<>>, cat_map, exclude_list, default_rules, 1)
    IN  IF ~Get(auto_alerts_config, "enabled", FALSE) THEN final_categories
        ELSE IF default_rules = <<>> THEN final_categories
        ELSE SelectSeq(final_categories, LAMBDA e : e[1] \notin Keys(detected)) \o detected

\* build_final_category_config(config, cat_map)
build_final_category_config(cfg, cat_map) ==
    LET final_categories == Get(cfg, "categories", <<>>)
        auto_alerts_config == Get(cfg, "auto_alerts", EmptyDict)
        exclude_list == Get(auto_alerts_config, "exclude", {})
        default_rules == Get(auto_alerts_config, "rules", <<>>)
    IN  IF ~Get(auto_alerts_config, "enabled", FALSE) THEN final_categories
        ELSE IF default_rules = <<>> THEN final_categories
        ELSE auto_detect(final_categories, cat_map, exclude_list, default_rules, 1)

\* the state file: missing (404), or there with a content
Absent == [exists |-> FALSE, content |-> EmptyDict]

File(content) == [exists |-> TRUE, content |-> content]

\* load_state(): the dict it returns when the file is f
load_state(f) == IF f.exists THEN f.content ELSE EmptyDict

\* get_state_sha(): the sha it returns when the file is f
get_state_sha(f) == IF f.exists THEN <<f.content>> ELSE None

\* save_state(state, old_sha) is accepted by the store when the file is f: a
\* PUT carrying the sha of the file as it is, or a request without sha that
\* creates a missing file
save_accepted(f, old_sha) ==
    IF old_sha # None THEN get_state_sha(f) = old_sha ELSE ~f.exists

\* save_state(state, old_sha) can be refused by the store when the file is f:
\* a PUT with a stale sha, or a POST, for which the contents endpoint may have
\* no handler
save_refused(f, old_sha) ==
    IF old_sha # None THEN get_state_sha(f) # old_sha ELSE TRUE

\* what load_config can return
MainConfigs ==
    {[budget_id |-> "b",
      categories |-> <<<<NameA, [rules |-> <<GoalRule(<<at5>>, 1), GoalRule(<<at5>>, 2)>>]>>>>],
     [budget_id |-> "b",
      categories |-> <<<<NameA, [rules |-> <<GoalRule(<<at5>>, 1)>>]>>>>,
      auto_alerts |-> [enabled |-> TRUE, exclude |-> {<<"C">>},
                       rules |-> <<GoalRule(<<at5>>, 2)>>]],
     [budget_id |-> "b",
      categories |-> <<<<NameA, [enabled |-> FALSE, rules |-> <<GoalRule(<<at5>>, 1)>>]>>,
                       <<NameB, [rules |-> <<GoalRule(<<at5, atBad>>, 1)>>]>>>>]}

\* what build_category_map(fetch_categories(...)) can return
CatMaps ==
    {<<<<NameA, Snapshot(<<1000>>, 800, 200)>>>>,
     <<<<NameA, Snapshot(<<1000>>, 0, 1000)>>>>,
     <<<<NameB, Snapshot(<<1000>>, 800, 200)>>>>}

\* the local variables of a run that is not running; loaded is the file as
\* load_state found it
IdleRun ==
    [pc |-> "idle", now |-> Epoch, cat_map |-> <<>>, state |-> EmptyDict,
     state_sha |-> None, state_dirty |-> FALSE, total_firings |-> 0, todo |-> <<>>,
     cat_config |-> EmptyDict, firings |-> <<>>, loaded |-> Absent]

Ended(pc) == [IdleRun EXCEPT !.pc = pc]

MainInit(procs) ==
    /\ config \in MainConfigs
    /\ clock = 0
    /\ store \in {Absent, File(EmptyDict)}
    /\ runs = [p \in procs |-> IdleRun]
    /\ started = 0
    /\ sent = <<>>
    /\ writes = <<>>
    /\ StateIdle
    /\ EvalIdle

\* one process: runs of main one after the other
Init == MainInit({1})

\* two processes: runs of main that interleave
ConcInit == MainInit({1, 2})

\* time passes
Tick ==
    /\ clock < MaxTick
    /\ clock' = clock + 1
    /\ UNCHANGED <<config, store, runs, started, sent, writes, stateVars, evalVars>>

\* main up to load_state: load_config, datetime.now, fetch_categories,
\* build_category_map
Start(p, cat_map) ==
    /\ runs[p].pc \in {"idle", "done", "failed"}
    /\ started < MaxRuns
    /\ started' = started + 1
    /\ runs' = [runs EXCEPT ![p] = [IdleRun EXCEPT !.pc = "load_state",
                                                   !.now = Instant(clock),
                                                   !.cat_map = cat_map]]
    /\ UNCHANGED <<config, clock, store, sent, writes, stateVars, evalVars>>

\* state = load_state()
LoadState(p) ==
    /\ runs[p].pc = "load_state"
    /\ runs' = [runs EXCEPT ![p].pc = "get_state_sha",
                            ![p].state = load_state(store),
                            ![p].loaded = store]
    /\ UNCHANGED <<config, clock, store, started, sent, writes, stateVars, evalVars>>

\* GetStateSha, had main not called prune_old_months
GetStateSha_without_prune(p) ==
    /\ runs[p].pc = "get_state_sha"
    /\ runs' = [runs EXCEPT ![p].pc = "evaluate",
                            ![p].state_sha = get_state_sha(store),
                            ![p].todo = build_final_category_config(config, runs[p].cat_map)]
    /\ UNCHANGED <<config, clock, store, started, sent, writes, stateVars, evalVars>>

\* state_sha = get_state_sha(), then prune_old_months and
\* build_final_category_config
GetStateSha(p) ==
    /\ runs[p].pc = "get_state_sha"
    /\ runs' = [runs EXCEPT ![p].pc = "evaluate",
                            ![p].state_sha = get_state_sha(store),
                            ![p].state = prune_old_months(@, runs[p].now),
                            ![p].todo = build_final_category_config(config, runs[p].cat_map)]
    /\ UNCHANGED <<config, clock, store, started, sent, writes, stateVars, evalVars>>

\* the locals of run p after evaluate_category gave r for the category
\* (cat_name, cat_config) at the head of final_categories
Evaluated(p, cat_config, r) ==
    IF r.err # ""
    THEN [runs EXCEPT ![p] = Ended("failed")]
    ELSE [runs EXCEPT ![p].todo = Tail(@),
                      ![p].cat_config = cat_config,
                      ![p].state = r.state,
                      ![p].firings = r.firings]

\* EvaluateCategory, had main ended with an error at a category that is not
\* in cat_map
EvaluateCategory_absent_raises(p) ==
    /\ runs[p].pc = "evaluate"
    /\ runs[p].firings = <<>>
    /\ runs[p].todo # <<>>
    /\ runs' = IF ~Get(Head(runs[p].todo)[2], "enabled", TRUE)
               THEN [runs EXCEPT ![p].todo = Tail(@)]
               ELSE IF Lookup(runs[p].cat_map, Head(runs[p].todo)[1]) = None
               THEN [runs EXCEPT ![p] = Ended("failed")]
               ELSE Evaluated(p, Head(runs[p].todo)[2],
                              evaluate_category(
                                  Head(runs[p].todo)[1], Head(runs[p].todo)[2],
                                  Lookup(runs[p].cat_map, Head(runs[p].todo)[1])[1],
                                  runs[p].state, runs[p].now))
    /\ UNCHANGED <<config, clock, store, started, sent, writes, stateVars, evalVars>>

\* one turn of the loop over final_categories, up to its first send_alert;
\* an error raised by evaluate_category ends the run
EvaluateCategory(p) ==
    /\ runs[p].pc = "evaluate"
    /\ runs[p].firings = <<>>
    /\ runs[p].todo # <<>>
    /\ runs' = IF \/ ~Get(Head(runs[p].todo)[2], "enabled", TRUE)
                  \/ Lookup(runs[p].cat_map, Head(runs[p].todo)[1]) = None
               THEN [runs EXCEPT ![p].todo = Tail(@)]
               ELSE Evaluated(p, Head(runs[p].todo)[2],
                              evaluate_category(
                                  Head(runs[p].todo)[1], Head(runs[p].todo)[2],
                                  Lookup(runs[p].cat_map, Head(runs[p].todo)[1])[1],
                                  runs[p].state, runs[p].now))
    /\ UNCHANGED <<config, clock, store, started, sent, writes, stateVars, evalVars>>

\* SendAlert, had main not called record_firing after send_alert
SendAlert_unrecorded(p) ==
    /\ runs[p].pc = "evaluate"
    /\ runs[p].firings # <<>>
    /\ sent' = Append(sent, [category_name |-> Head(runs[p].firings).category_name,
                             at |-> Head(runs[p].firings).trigger.at,
                             time |-> Instant(clock),
                             cat_config |-> runs[p].cat_config])
    /\ runs' = [runs EXCEPT ![p].firings = Tail(@),
                            ![p].state_dirty = TRUE,
                            ![p].total_firings = @ + 1]
    /\ UNCHANGED <<config, clock, store, started, writes, stateVars, evalVars>>

\* send_alert(firing) delivered, then record_firing, state_dirty = True and
\* total_firings += 1
SendAlert(p) ==
    /\ runs[p].pc = "evaluate"
    /\ runs[p].firings # <<>>
    /\ LET firing == Head(runs[p].firings)
       IN  /\ sent' = Append(sent, [category_name |-> firing.category_name,
                                    at |-> firing.trigger.at,
                                    time |-> Instant(clock),
                                    cat_config |-> runs[p].cat_config])
           /\ runs' = [runs EXCEPT ![p].firings = Tail(@),
                                   ![p].state = record_firing(@, firing.category_name,
                                                              firing.trigger.at, runs[p].now),
                                   ![p].state_dirty = TRUE,
                                   ![p].total_firings = @ + 1]
    /\ UNCHANGED <<config, clock, store, started, writes, stateVars, evalVars>>

\* SendAlertFails, had main caught the error of send_alert and gone on to
\* record_firing
SendAlertFails_caught(p) ==
    /\ runs[p].pc = "evaluate"
    /\ runs[p].firings # <<>>
    /\ runs' = [runs EXCEPT ![p].firings = Tail(@),
                            ![p].state = record_firing(@, Head(runs[p].firings).category_name,
                                                       Head(runs[p].firings).trigger.at,
                                                       runs[p].now),
                            ![p].state_dirty = TRUE]
    /\ UNCHANGED <<config, clock, store, started, sent, writes, stateVars, evalVars>>

\* send_alert(firing) raising (raise_for_status): the run ends there
SendAlertFails(p) ==
    /\ runs[p].pc = "evaluate"
    /\ runs[p].firings # <<>>
    /\ runs' = [runs EXCEPT ![p] = Ended("failed")]
    /\ UNCHANGED <<config, clock, store, started, sent, writes, stateVars, evalVars>>

\* the loop is over
AtSave(p) == runs[p].pc = "evaluate" /\ runs[p].firings = <<>> /\ runs[p].todo = <<>>

\* save_state(state, state_sha) accepted by the store
SaveState(p) ==
    /\ AtSave(p)
    /\ runs[p].state_dirty
    /\ save_accepted(store, runs[p].state_sha)
    /\ store' = File(runs[p].state)
    /\ writes' = Append(writes, [loaded |-> runs[p].loaded, replaced |-> store,
                                 written |-> runs[p].state, now |-> runs[p].now])
    /\ runs' = [runs EXCEPT ![p] = Ended("done")]
    /\ UNCHANGED <<config, clock, started, sent, stateVars, evalVars>>

\* save_state(state, state_sha) refused by the store: raise_for_status ends
\* the run
SaveStateRefused(p) ==
    /\ AtSave(p)
    /\ runs[p].state_dirty
    /\ save_refused(store, runs[p].state_sha)
    /\ runs' = [runs EXCEPT ![p] = Ended("failed")]
    /\ UNCHANGED <<config, clock, store, started, sent, writes, stateVars, evalVars>>

\* Finish, had main saved the pruned state of a run without firings
Finish_saves_pruned(p) ==
    /\ AtSave(p)
    /\ ~runs[p].state_dirty
    /\ store' = IF store.exists THEN File(runs[p].state) ELSE store
    /\ runs' = [runs EXCEPT ![p] = Ended("done")]
    /\ UNCHANGED <<config, clock, started, sent, writes, stateVars, evalVars>>

\* state_dirty is false: nothing is saved
Finish(p) ==
    /\ AtSave(p)
    /\ ~runs[p].state_dirty
    /\ runs' = [runs EXCEPT ![p] = Ended("done")]
    /\ UNCHANGED <<config, clock, store, started, sent, writes, stateVars, evalVars>>

Next ==
    \/ Tick
    \/ \E p \in DOMAIN runs, cat_map \in CatMaps : Start(p, cat_map)
    \/ \E p \in DOMAIN runs : LoadState(p)
    \/ \E p \in DOMAIN runs : GetStateSha(p)
    \/ \E p \in DOMAIN runs : EvaluateCategory(p)
    \/ \E p \in DOMAIN runs : SendAlert(p)
    \/ \E p \in DOMAIN runs : SendAlertFails(p)
    \/ \E p \in DOMAIN runs : SaveState(p)
    \/ \E p \in DOMAIN runs : SaveStateRefused(p)
    \/ \E p \in DOMAIN runs : Finish(p)

Spec == Init /\ [][Next]_vars

SpecConc == ConcInit /\ [][Next]_vars

(***************************************************************************)
(* The category-set specification: build_final_category_config applied to  *)
(* a config and a category map drawn at the start.                         *)
(***************************************************************************)
NameC == <<"C">>

DefaultRules == <<GoalRule(<<at5>>, 2)>>

\* config["categories"]: the key missing, one entry, two entries
ExplicitCategories ==
    {<<>>,
     <<<<NameA, [rules |-> <<GoalRule(<<at5>>, 1)>>]>>>>,
     <<<<NameB, [enabled |-> FALSE, rules |-> <<>>]>>,
       <<NameA, [rules |-> <<PacingRule(<<atOver>>, 0)>>]>>>>}

\* config["auto_alerts"], when the key is there
AutoAlerts ==
    {[enabled |-> FALSE, rules |-> DefaultRules],
     [rules |-> DefaultRules]}
    \cup {[enabled |-> TRUE, exclude |-> x, rules |-> r] :
             x \in {{}, {NameA}, {NameC}, {NameB, NameC}}, r \in {DefaultRules, <<>>}}
    \cup {[enabled |-> TRUE, rules |-> DefaultRules]}

WithCategories(cfg, categories) ==
    IF categories = <<>> THEN cfg ELSE cfg @@ [categories |-> categories]

BuildConfigs ==
    {WithCategories([budget_id |-> "b"], c) : c \in ExplicitCategories}
    \cup {WithCategories([budget_id |-> "b", auto_alerts |-> a], c) :
              a \in AutoAlerts, c \in ExplicitCategories}

\* the goal_target of a category of the budget: none, zero, an amount
GoalTargets == {None, <<0>>, <<1000>>}

\* the entry of the category map for a name: none when the budget has no
\* category of that name
CatMapEntry(name, snapshot) ==
    IF snapshot = None THEN <<>> ELSE <<<<name, snapshot[1]>>>>

\* the categories of the budget by name: each of A, B, C is missing or there
\* with one of the goal targets
BuildCatMaps ==
    {CatMapEntry(NameA, a) \o CatMapEntry(NameB, b) \o CatMapEntry(NameC, c) :
        a \in {None} \cup {<<Snapshot(g, 0, 0)>> : g \in GoalTargets},
        b \in {None} \cup {<<Snapshot(g, 0, 0)>> : g \in GoalTargets},
        c \in {None} \cup {<<Snapshot(g, 0, 0)>> : g \in GoalTargets}}

BuildInit ==
    /\ evalIn \in [config : BuildConfigs, cat_map : BuildCatMaps]
    /\ evalState = EmptyDict
    /\ evalCalls = <<>>
    /\ StateIdle
    /\ MainIdle

CallBuildFinalCategoryConfig ==
    Call("build_final_category_config", <<0, 0>>,
         [err |-> "", ret |-> build_final_category_config(evalIn.config, evalIn.cat_map),
          state |-> evalState])

BuildNext == CallBuildFinalCategoryConfig

SpecBuild == BuildInit /\ [][BuildNext]_vars

(***************************************************************************)
(* The parsing specification: parse_threshold applied to a string drawn at *)
(* the start.                                                              *)
(***************************************************************************)
\* numerals of the form [0-9]+(\.[0-9]+)?
Numerals ==
    {<<"5">>, <<"7", "5">>, <<"2", "0", "0">>, <<"0", ".", "5">>,
     <<"1", "2", ".", "2", "5">>, <<"0", "0", "7">>}

\* what is not such a numeral
BadNumerals == {<<>>, <<"5", ".">>, <<".", "5">>, <<"-", "5">>, <<"+", "5">>, <<"7", ":", "5">>}

\* most spaces in a row in a string
MaxSpaces == 2

Spaces(n) == [i \in 1..n |-> " "]

OverWords == {<<"o", "v", "e", "r">>, <<"O", "V", "E", "R">>, <<"O", "v", "e", "r">>,
              <<"o", "v", "e">>}

RemainingWords ==
    {<<"r", "e", "m", "a", "i", "n", "i", "n", "g">>,
     <<"R", "E", "M", "A", "I", "N", "I", "N", "G">>,
     <<"R", "e", "m", "a", "i", "n", "i", "n", "g">>,
     <<"r", "e", "m", "a", "i", "n">>}

\* the expressions of a config, before the spaces around them
ParseBodies ==
    {n \o Spaces(a) \o <<"%">> : n \in Numerals \cup BadNumerals, a \in 0..MaxSpaces}
    \cup {n \o Spaces(a) \o <<"%">> \o Spaces(b) \o w :
              n \in Numerals \cup BadNumerals, a \in 0..MaxSpaces, b \in 0..MaxSpaces,
              w \in OverWords}
    \cup {<<"$">> \o n \o Spaces(a) \o w :
              n \in Numerals \cup BadNumerals, a \in 0..MaxSpaces, w \in RemainingWords}
    \cup {<<"$", " ", "5", " ">> \o w : w \in RemainingWords}
    \cup {<<>>, <<"%">>, <<"5">>, <<"5", "%", "%">>, <<"5", "%", " ", "o", "v", "e", "r", " ", "2">>,
           <<"$", "5", "%">>, <<"5", " ", "r", "e", "m", "a", "i", "n", "i", "n", "g">>}

ParseStrings ==
    {Spaces(a) \o body \o Spaces(b) : a \in 0..1, b \in 0..1, body \in ParseBodies}

ParseInit ==
    /\ evalIn \in [at_value : ParseStrings]
    /\ evalState = EmptyDict
    /\ evalCalls = <<>>
    /\ StateIdle
    /\ MainIdle

\* what parse_threshold gives, as a call outcome: the tuple it returns
Parsed(r) == [err |-> r.err, ret |-> <<r.type, r.value>>, state |-> evalState]

CallParseThreshold ==
    Call("parse_threshold", <<0, 0>>, Parsed(parse_threshold(evalIn.at_value)))

ParseNext == CallParseThreshold

SpecParse == ParseInit /\ [][ParseNext]_vars

(***************************************************************************)
(* The month specification: should_alert at an instant of a month, on a    *)
(* state that holds a firing recorded at an instant of a month.            *)
(***************************************************************************)
\* the first minute, the middle and the last minute of months of 28, 29, 30
\* and 31 days
MonthInstants ==
    {[year |-> ym[1], month |-> ym[2], day |-> dt[1], hour |-> dt[2], minute |-> dt[3]] :
        ym \in {<<2026, 2>>, <<2028, 2>>, <<2026, 11>>, <<2026, 12>>},
        dt \in {<<1, 0, 0>>, <<15, 12, 0>>}}
    \cup {[year |-> ym[1], month |-> ym[2], day |-> DaysInMonth(ym[1], ym[2]),
           hour |-> 23, minute |-> 59] :
              ym \in {<<2026, 2>>, <<2028, 2>>, <<2026, 11>>, <<2026, 12>>}}

MonthInit ==
    /\ evalIn \in [category_name : {NameA}, recorded : MonthInstants, now : MonthInstants]
    /\ evalState = record_firing(EmptyDict, evalIn.category_name, at5, evalIn.recorded)
    /\ evalCalls = <<>>
    /\ StateIdle
    /\ MainIdle

\* should_alert with the default cooldown of the goal_threshold rules, one
\* hour less, and the default cooldown of the pacing rules
MonthNext ==
    \E h \in {DefaultGoalMinHours, DefaultGoalMinHours - 1, DefaultPacingMinHours} :
        CallShouldAlert(at5, h)

SpecMonth == MonthInit /\ [][MonthNext]_vars

(***************************************************************************)
(* Properties of the cooldown state.                                       *)
(***************************************************************************)
SetMax(S) == CHOOSE x \in S : \A y \in S : y <= x

SameMonth(a, b) == a.year = b.year /\ a.month = b.month

\* a lies in a later calendar month than b
LaterMonth(a, b) == a.year > b.year \/ (a.year = b.year /\ a.month > b.month)

\* the record_firing calls made for the pair (c, t)
RecordIdxs(c, t) ==
    {i \in 1..Len(fireLog) :
        fireLog[i].op = "record_firing" /\ fireLog[i].c = c /\ fireLog[i].t = t}

\* the entry written by call i is still there: no later call wrote its key in
\* its month bucket, and no later prune removed that bucket
Intact(i) ==
    \A j \in (i + 1)..Len(fireLog) :
        /\ ~(/\ fireLog[j].op = "record_firing"
             /\ StateKey(fireLog[j].c, fireLog[j].t) = StateKey(fireLog[i].c, fireLog[i].t)
             /\ SameMonth(fireLog[j].now, fireLog[i].now))
        /\ ~(fireLog[j].op = "prune_old_months" /\ LaterMonth(fireLog[j].now, fireLog[i].now))

LastCall == fireLog[Len(fireLog)]

\* C2 as stated: after record_firing(c, t, T) and no later record_firing for
\* (c, t), should_alert is false for every now with T <= now < T + H hours and
\* true for every now >= T + H hours.
C2_CooldownWindowAnyMonth ==
    \A c \in CatNames, t \in TrigKeys :
        RecordIdxs(c, t) # {} =>
            LET T == fireLog[SetMax(RecordIdxs(c, t))].now
            IN  \A H \in CooldownHours, now \in Instants :
                    LET d == MinutesBetween(now, T)
                    IN  /\ (0 <= d /\ d < H * 60) => ~should_alert(st, c, t, H, now).ret
                        /\ (d >= H * 60) => should_alert(st, c, t, H, now).ret

\* C2 amended: after record_firing(c, t, T), while the entry it wrote is still
\* in the state, should_alert is, for every now in the calendar month of T,
\* false when T <= now < T + H hours and true when now >= T + H hours.
C2_CooldownWindowSameMonth ==
    \A c \in CatNames, t \in TrigKeys :
        (RecordIdxs(c, t) # {} /\ Intact(SetMax(RecordIdxs(c, t)))) =>
            LET T == fireLog[SetMax(RecordIdxs(c, t))].now
            IN  \A H \in CooldownHours, now \in Instants :
                    LET d == MinutesBetween(now, T)
                    IN  SameMonth(now, T) =>
                            /\ (0 <= d /\ d < H * 60) => ~should_alert(st, c, t, H, now).ret
                            /\ (d >= H * 60) => should_alert(st, c, t, H, now).ret

\* a firing still in the state, with one instant of its month inside the
\* cooldown window (refused) and one at its very end (allowed)
C2_Witness ==
    \E c \in CatNames, t \in TrigKeys :
        /\ RecordIdxs(c, t) # {}
        /\ Intact(SetMax(RecordIdxs(c, t)))
        /\ LET T == fireLog[SetMax(RecordIdxs(c, t))].now
           IN  \E H \in CooldownHours, n1 \in Instants, n2 \in Instants :
                   /\ SameMonth(n1, T) /\ SameMonth(n2, T)
                   /\ MinutesBetween(n1, T) = H * 60 - 30
                   /\ MinutesBetween(n2, T) = H * 60
                   /\ ~should_alert(st, c, t, H, n1).ret
                   /\ should_alert(st, c, t, H, n2).ret

\* C3: a firing recorded in month M does not lock out a later month: for every
\* now of a later calendar month in which no firing of the pair was recorded,
\* should_alert is true, whatever the cooldown hours, pruned or not.
C3_RolloverUnlocks ==
    \A c \in CatNames, t \in TrigKeys, now \in Instants :
        (/\ \E i \in RecordIdxs(c, t) : LaterMonth(now, fireLog[i].now)
         /\ \A i \in RecordIdxs(c, t) : ~SameMonth(fireLog[i].now, now))
        => \A H \in CooldownHours : should_alert(st, c, t, H, now).ret

\* an unpruned firing of month M, and an instant of month M+1 that is still
\* inside its cooldown window, at which should_alert is true
C3_Witness ==
    \E c \in CatNames, t \in TrigKeys, now \in Instants, H \in CooldownHours :
        /\ RecordIdxs(c, t) # {}
        /\ \A i \in RecordIdxs(c, t) : LaterMonth(now, fireLog[i].now)
        /\ LET i == SetMax(RecordIdxs(c, t))
           IN  /\ Intact(i)
               /\ MinutesBetween(now, fireLog[i].now) < H * 60
               /\ current_month_key(fireLog[i].now) \in DOMAIN st["fired"]
        /\ should_alert(st, c, t, H, now).ret

\* C5 as stated: record_firing(state, c, t, now) does not change the result of
\* should_alert(state, c', t', H, now') for any other pair (c', t'), any H and
\* any now'.
C5_PairsIndependent ==
    (Len(fireLog) > 0 /\ LastCall.op = "record_firing") =>
        \A c2 \in CatNames, t2 \in TrigKeys :
            <<c2, t2>> # <<LastCall.c, LastCall.t>> =>
                \A H \in CooldownHours, now \in Instants :
                    should_alert(st, c2, t2, H, now).ret
                        = should_alert(LastCall.before, c2, t2, H, now).ret

\* the entries of a state: <<month key, state key, timestamp>>
Entries(state) ==
    LET fired == Get(state, "fired", EmptyDict)
    IN  {<<mk[1], mk[2], fired[mk[1]][mk[2]]>> : mk \in
            {x \in (DOMAIN fired) \X {StateKey(c, t) : c \in CatNames, t \in TrigKeys} :
                x[2] \in DOMAIN fired[x[1]]}}

\* C6: record_firing(state, c, t, now) sets the entry of (c, t) in now's month
\* bucket to now and leaves every other entry unchanged; and after
\* record_firing calls only, each bucket holds one timestamp for each pair that
\* fired in that month, the one of its most recent firing, and nothing else.
C6_LastFiringOnly ==
    /\ (Len(fireLog) > 0 /\ LastCall.op = "record_firing") =>
          LET m == current_month_key(LastCall.now)
              k == StateKey(LastCall.c, LastCall.t)
          IN  /\ DOMAIN st = {"fired"}
              /\ <<m, k, isoformat(LastCall.now)>> \in Entries(st)
              /\ fromisoformat(st["fired"][m][k]) = LastCall.now
              /\ {e \in Entries(st) : <<e[1], e[2]>> # <<m, k>>}
                     = {e \in Entries(LastCall.before) : <<e[1], e[2]>> # <<m, k>>}
              /\ DOMAIN st["fired"] = DOMAIN Get(LastCall.before, "fired", EmptyDict) \cup {m}
    /\ (\A i \in 1..Len(fireLog) : fireLog[i].op = "record_firing") =>
          \A c \in CatNames, t \in TrigKeys, now \in Instants :
              LET idxs == {i \in RecordIdxs(c, t) : SameMonth(fireLog[i].now, now)}
                  bucket == Get(Get(st, "fired", EmptyDict), current_month_key(now), EmptyDict)
              IN  /\ idxs # {} =>
                        GetOpt(bucket, StateKey(c, t)) = <<isoformat(fireLog[SetMax(idxs)].now)>>
                  /\ Cardinality(DOMAIN bucket)
                        = Cardinality({p \in CatNames \X TrigKeys :
                              \E i \in RecordIdxs(p[1], p[2]) : SameMonth(fireLog[i].now, now)})

\* a pair fired twice in one month at different instants, the bucket holding
\* the later call's instant, next to an entry of another pair
C6_Witness ==
    /\ \A i \in 1..Len(fireLog) : fireLog[i].op = "record_firing"
    /\ \E i \in 1..Len(fireLog), j \in 1..Len(fireLog) :
          /\ i < j /\ j = Len(fireLog)
          /\ fireLog[i].c = fireLog[j].c /\ fireLog[i].t = fireLog[j].t
          /\ SameMonth(fireLog[i].now, fireLog[j].now)
          /\ fireLog[i].now # fireLog[j].now
          /\ st["fired"][current_month_key(fireLog[j].now)][StateKey(fireLog[j].c, fireLog[j].t)]
                 = isoformat(fireLog[j].now)
    /\ Cardinality(Entries(st)) >= 2

\* the calendar month a period key names
KeyMonth(k) == [year |-> DigitsToInt(k, 1, 4), month |-> DigitsToInt(k, 6, 7)]

\* C9: prune_old_months(state, now) removes exactly the period buckets of the
\* months before now's month, whose keys are the lexicographically smaller
\* ones; the bucket of now's month and those of later months are kept with
\* their contents unchanged, as is the rest of the state.
C9_PruneRemovesOlderOnly ==
    (Len(fireLog) > 0 /\ LastCall.op = "prune_old_months") =>
        LET before == LastCall.before
            month == current_month_key(LastCall.now)
        IN  /\ DOMAIN st = DOMAIN before
            /\ "fired" \in DOMAIN before =>
                  /\ DOMAIN st["fired"]
                        = {k \in DOMAIN before["fired"] : ~LaterMonth(LastCall.now, KeyMonth(k))}
                  /\ \A k \in DOMAIN before["fired"] :
                        LaterMonth(LastCall.now, KeyMonth(k)) <=> StrLess(k, month)
                  /\ \A k \in DOMAIN st["fired"] : st["fired"][k] = before["fired"][k]

\* a prune that found an older bucket and a bucket to keep, removed the first
\* and kept the second
C9_Witness ==
    /\ Len(fireLog) > 0 /\ LastCall.op = "prune_old_months"
    /\ "fired" \in DOMAIN LastCall.before
    /\ \E k1 \in DOMAIN LastCall.before["fired"], k2 \in DOMAIN LastCall.before["fired"] :
          /\ StrLess(k1, current_month_key(LastCall.now))
          /\ k1 \notin DOMAIN st["fired"]
          /\ k2 \in DOMAIN st["fired"]
          /\ st["fired"][k2] # EmptyDict

(***************************************************************************)
(* Properties of evaluation.                                               *)
(***************************************************************************)
\* the calls made so far of the function fn
CallIdxs(fn) == {i \in 1..Len(evalCalls) : evalCalls[i].fn = fn}

\* C7: evaluation never modifies the cooldown state: every call of
\* should_alert, evaluate_goal_threshold_rule, evaluate_pacing_rule and
\* evaluate_category leaves the state argument as it found it, and
\* should_alert called again with the same arguments gives the same answer.
C7_EvaluationLeavesState ==
    /\ \A i \in 1..Len(evalCalls) : evalCalls[i].after = evalCalls[i].before
    /\ \A i \in CallIdxs("should_alert"), j \in CallIdxs("should_alert") :
           evalCalls[i].arg = evalCalls[j].arg => evalCalls[i].ret = evalCalls[j].ret

\* should_alert called twice on a state without the bucket of now's month: it
\* answered True both times and the state is still without that bucket
C7_Witness ==
    /\ Len(evalCalls) = 2
    /\ \A i \in 1..2 : evalCalls[i].fn = "should_alert" /\ evalCalls[i].ret = TRUE
    /\ current_month_key(evalIn.now) \notin DOMAIN Get(evalState, "fired", EmptyDict)

\* C8: evaluate_category run twice with the same category name, config,
\* snapshot and now on the same state, with no record_firing in between, gives
\* the same outcome both times: the same list of Firings, or the same error.
C8_EvaluateCategoryRepeatable ==
    \A i \in CallIdxs("evaluate_category"), j \in CallIdxs("evaluate_category") :
        /\ evalCalls[i].ret = evalCalls[j].ret
        /\ evalCalls[i].err = evalCalls[j].err

\* evaluate_category run twice, returning both times a goal_threshold Firing
\* followed by a pacing Firing with its context
C8_Witness ==
    /\ Len(evalCalls) = 2
    /\ \A i \in 1..2 :
          /\ evalCalls[i].fn = "evaluate_category"
          /\ Len(evalCalls[i].ret) >= 2
          /\ \E k \in 1..Len(evalCalls[i].ret) :
                evalCalls[i].ret[k].pacing_context # EmptyDict
          /\ \E k \in 1..Len(evalCalls[i].ret) :
                evalCalls[i].ret[k].pacing_context = EmptyDict

\* the triggers of rule i whose expression matches no grammar rule
BadTriggers(i) ==
    {k \in 1..Len(EvalRules[i]["triggers"]) :
        parse_threshold(EvalRules[i]["triggers"][k].at).err # ""}

\* the rule-level calls: arg[1] is the rule called
RuleCallIdxs == CallIdxs("evaluate_goal_threshold_rule") \cup CallIdxs("evaluate_pacing_rule")

ReachesTrigger(i, k, s, m) ==
    LET rule == EvalRules[i]
        pacing == rule["type"] = "pacing"
        min_hours == Get(rule, "min_hours_between_alerts",
                         IF pacing THEN DefaultPacingMinHours ELSE DefaultGoalMinHours)
    IN  /\ evalIn.ynab_category.goal_target # None
        /\ pacing => evalIn.ynab_category.goal_target # <<0>>
        /\ pacing => m >= Get(rule, "warm_up_hours", DefaultWarmUpHours) * 60
        /\ should_alert(s, evalIn.category_name, rule["triggers"][k].at, min_hours,
                        evalIn.now).ret

RuleAlone(i, s) ==
    IF EvalRules[i]["type"] = "pacing"
    THEN evaluate_pacing_rule(evalIn.category_name, EvalRules[i], evalIn.ynab_category, s,
                              evalIn.now, MinutesIntoMonth(evalIn.now))
    ELSE evaluate_goal_threshold_rule(evalIn.category_name, EvalRules[i],
                                      evalIn.ynab_category, s, evalIn.now)

\* C11: a parser or evaluator error raised for one rule stops only that rule:
\* evaluate_category still returns the Firings of every rule of the category
\* whose own evaluation raises nothing.
C11_ErrorStopsOnlyItsRule ==
    \A c \in CallIdxs("evaluate_category") :
        Get(evalIn.cat_config, "enabled", TRUE) =>
            \A i \in 1..Len(EvalRules) :
                (EvalRules[i]["type"] \in RuleTypes /\ RuleAlone(i, evalCalls[c].before).err = "")
                => \A k \in 1..Len(RuleAlone(i, evalCalls[c].before).firings) :
                       \E j \in 1..Len(evalCalls[c].ret) :
                           evalCalls[c].ret[j] = RuleAlone(i, evalCalls[c].before).firings[k]

(***************************************************************************)
(* Properties of the runs of main.                                         *)
(***************************************************************************)
SetMin(S) == CHOOSE x \in S : \A y \in S : x <= y

\* the min_hours_between_alerts of the rules of cat_config that hold the
\* trigger expression at
RuleMinHours(cat_config, at) ==
    LET rules == Get(cat_config, "rules", <<>>)
    IN  {Get(rules[i], "min_hours_between_alerts",
             IF rules[i]["type"] = "pacing" THEN DefaultPacingMinHours
             ELSE DefaultGoalMinHours) :
            i \in {n \in 1..Len(rules) :
                      /\ rules[n]["type"] \in RuleTypes
                      /\ \E k \in 1..Len(rules[n]["triggers"]) :
                            rules[n]["triggers"][k].at = at}}

\* C1: over any sequence of runs of main, two alerts sent for the same
\* (category name, trigger expression) pair within the same calendar month are
\* at least the rule's min_hours_between_alerts apart (the smallest one, when
\* several rules of the category hold the expression), two alerts of a single
\* run included.
C1_AlertsCooldownApart ==
    \A i \in 1..Len(sent), j \in 1..Len(sent) :
        (/\ i < j
         /\ sent[i].category_name = sent[j].category_name
         /\ sent[i].at = sent[j].at
         /\ SameMonth(sent[i].time, sent[j].time))
        => MinutesBetween(sent[j].time, sent[i].time)
               >= 60 * SetMin(RuleMinHours(sent[j].cat_config, sent[j].at))

\* the entries (month, key) of a state
StateEntries(state) ==
    LET fired == Get(state, "fired", EmptyDict)
    IN  {e \in (DOMAIN fired) \X (UNION {DOMAIN fired[x] : x \in DOMAIN fired}) :
            e[2] \in DOMAIN fired[e[1]]}

\* C4: when runs of main interleave on the same state file, every write the
\* store accepts replaces the file as the writing run loaded it, and erases no
\* firing record that was in the file: every entry of the replaced file, in a
\* month that prune_old_months keeps, is in the written state with a timestamp
\* that is not older.
C4_ConditionalWriteKeepsRecords ==
    \A w \in 1..Len(writes) :
        /\ writes[w].replaced = writes[w].loaded
        /\ \A e \in StateEntries(writes[w].replaced.content) :
               ~StrLess(e[1], current_month_key(writes[w].now)) =>
                   /\ e \in StateEntries(writes[w].written)
                   /\ MinutesBetween(
                          fromisoformat(writes[w].written["fired"][e[1]][e[2]]),
                          fromisoformat(writes[w].replaced.content["fired"][e[1]][e[2]])) >= 0

(***************************************************************************)
(* Properties of the low-level evaluators.                                 *)
(***************************************************************************)
\* what parse_threshold gives for the trigger of the calculation
CalcParsed == parse_threshold(evalIn.trigger.at)

\* the limit of the snapshot is there and is not zero
CalcHasLimit ==
    evalIn.ynab_category.goal_target # None /\ evalIn.ynab_category.goal_target # <<0>>

\* C12: evaluate_goal_threshold fails with an error whenever the trigger's
\* expression parses as PercentOver, for every snapshot; it never returns a
\* boolean for such a trigger.
C12_PercentOverRefused ==
    \A c \in CallIdxs("evaluate_goal_threshold") :
        (CalcParsed.err = "" /\ CalcParsed.type = "percent_over") => evalCalls[c].err # ""

\* C13 as stated: evaluate_pacing fails with an error whenever the trigger's
\* expression is valid but not of the PercentOver kind, for every snapshot and
\* every now.
C13_WrongKindAlwaysFails ==
    \A c \in CallIdxs("evaluate_pacing") :
        (CalcParsed.err = "" /\ CalcParsed.type # "percent_over") => evalCalls[c].err # ""

\* C13 amended: evaluate_pacing fails with ValueError whenever the snapshot's
\* limit is present and non-zero and the trigger's expression is valid but not
\* of the PercentOver kind, for every now.
C13_WrongKindFailsWithLimit ==
    \A c \in CallIdxs("evaluate_pacing") :
        (CalcHasLimit /\ CalcParsed.err = "" /\ CalcParsed.type # "percent_over")
        => evalCalls[c].err = "ValueError"

\* evaluate_pacing has raised ValueError for a DollarsRemaining trigger on a
\* snapshot with a limit
C13_Witness ==
    \E c \in CallIdxs("evaluate_pacing") :
        /\ CalcHasLimit
        /\ CalcParsed.err = "" /\ CalcParsed.type = "dollars_remaining"
        /\ evalCalls[c].err = "ValueError"

\* C14: when the snapshot's limit is absent or zero, evaluate_pacing returns
\* (False, {}) and raises no error, for every trigger and every now.
C14_NoLimitNoPacing ==
    \A c \in CallIdxs("evaluate_pacing") :
        ~CalcHasLimit => (evalCalls[c].err = "" /\ evalCalls[c].ret = <<FALSE, EmptyDict>>)

\* evaluate_pacing has returned (False, {}) on a zero limit for a trigger that
\* does not parse
C14_Witness ==
    \E c \in CallIdxs("evaluate_pacing") :
        /\ evalIn.ynab_category.goal_target = <<0>>
        /\ CalcParsed.err # ""
        /\ evalCalls[c].err = ""
        /\ evalCalls[c].ret = <<FALSE, EmptyDict>>

(***************************************************************************)
(* The statements about amounts compare exact numbers.  A natural number   *)
(* is a limb string; the threshold of an expression is the decimal it      *)
(* writes, ThNum / 10^ThDigits.                                            *)
(***************************************************************************)
BigOf(n) == BitsToLimbs(PadLimbs(ToBits(n)))

\* a * n for a natural a and an int n from 0 to 2^DivisorBits
BigTimes(a, n) == Product(MulLimbs(a, n, 0, 1))

RECURSIVE BigTimesPow10(_, _)
BigTimesPow10(a, k) ==
    IF k = 0 THEN a ELSE BigTimesPow10(Carried(MulLimbs(a, 10, 0, 1)), k - 1)

BigGeq(a, b) ==
    LET n == IF Len(a) > Len(b) THEN Len(a) ELSE Len(b)
    IN  BitsGeq(PadBits(a, n), PadBits(b, n))

\* the expression of the calculation as parse_threshold matches it, and where
\* its number starts and ends
CalcAt == Strip(evalIn.trigger.at)

CalcFrom == IF match_dollars(CalcAt) THEN 2 ELSE 1

CalcTo == NumberEnd(CalcAt, CalcFrom)

ThNum == Carried(DecimalLimbs(CalcAt, CalcFrom, CalcTo))

ThDigits == FractionDigits(CalcAt, CalcFrom, CalcTo)

\* n / d >= threshold and n / d <= threshold, for ints n and d > 0
AtLeastThreshold(n, d) ==
    n >= 0 /\ BigGeq(BigTimesPow10(BigOf(n), ThDigits), BigTimes(ThNum, d))

AtMostThreshold(n, d) ==
    n < 0 \/ BigGeq(BigTimes(ThNum, d), BigTimesPow10(BigOf(n), ThDigits))

C17_ThresholdMetExactly ==
    \A c \in CallIdxs("evaluate_goal_threshold") :
        (CalcHasLimit /\ CalcParsed.err = "")
        => ((evalCalls[c].err = "" /\ evalCalls[c].ret = TRUE)
            <=> \/ /\ CalcParsed.type = "percent_spent"
                   /\ AtLeastThreshold(evalIn.ynab_category.activity * 100,
                                       evalIn.ynab_category.goal_target[1])
                \/ /\ CalcParsed.type = "dollars_remaining"
                   /\ AtMostThreshold(evalIn.ynab_category.balance, 1000))

\* the days of the month of the calculation, and those gone by: max(day, 1)
CalcDays == DaysInMonth(evalIn.now.year, evalIn.now.month)

CalcElapsed == IF evalIn.now.day > 1 THEN evalIn.now.day ELSE 1

\* C18: for a snapshot with a present, non-zero limit and a PercentOver(th)
\* trigger, evaluate_pacing fires exactly when
\* ((activity * daysInPeriod / daysElapsed) - limit) / limit * 100 >= th, with
\* daysElapsed = max(day of month, 1); a limit of 1000 with activity 600 on day
\* 15 of a 30-day month is 20% over.
C18_PacingFiresExactly ==
    \A c \in CallIdxs("evaluate_pacing") :
        (CalcHasLimit /\ CalcParsed.err = "" /\ CalcParsed.type = "percent_over")
        => /\ evalCalls[c].err = ""
           /\ evalCalls[c].ret[1]
              = AtLeastThreshold(
                    (evalIn.ynab_category.activity * CalcDays
                     - evalIn.ynab_category.goal_target[1] * CalcElapsed) * 100,
                    CalcElapsed * evalIn.ynab_category.goal_target[1])

(***************************************************************************)
(* Properties of the rule evaluators and of the dispatcher.                *)
(***************************************************************************)
\* C15: evaluate_goal_threshold_rule returns an empty list, without error,
\* whenever the snapshot's limit is absent or zero, for every trigger list and
\* every state.
C15_NoUsableLimitEmpty ==
    \A c \in CallIdxs("evaluate_goal_threshold_rule") :
        (evalIn.ynab_category.goal_target = None \/ evalIn.ynab_category.goal_target = <<0>>)
        => (evalCalls[c].err = "" /\ evalCalls[c].ret = <<>>)

\* the warm_up_hours of rule i, in minutes
WarmUp(i) == Get(EvalRules[i], "warm_up_hours", DefaultWarmUpHours) * 60

\* C19: evaluate_pacing_rule returns an empty list whenever hours_into_month
\* is below the rule's warm_up_hours (72 when the rule has none), for every
\* snapshot, state and trigger list, and does no per-trigger work: it raises
\* nothing, whatever the triggers are, and leaves the state alone.
C19_WarmUpReturnsEmpty ==
    \A c \in CallIdxs("evaluate_pacing_rule") :
        evalCalls[c].arg[2] < WarmUp(evalCalls[c].arg[1])
        => /\ evalCalls[c].err = ""
           /\ evalCalls[c].ret = <<>>
           /\ evalCalls[c].after = evalCalls[c].before

\* a pacing rule in its warm-up, called on a snapshot that is over pace with a
\* trigger that is due and a trigger that does not parse: it returned nothing
C19_Witness ==
    \E c \in CallIdxs("evaluate_pacing_rule") :
        LET i == evalCalls[c].arg[1]
        IN  /\ evalCalls[c].arg[2] < WarmUp(i)
            /\ BadTriggers(i) # {}
            /\ RuleAlone(i, evalCalls[c].before).err = "ValueError"
            /\ evalCalls[c].err = ""
            /\ evalCalls[c].ret = <<>>

\* the rules of known kind of a category config
KnownRules(cat_config) ==
    [cat_config EXCEPT !.rules = SelectSeq(@, LAMBDA rule : rule["type"] \in RuleTypes)]

\* C20: a rule of unrecognized kind never fails evaluate_category and
\* contributes no Firing: evaluate_category gives what it gives for the
\* config without the rules of unrecognized kind, the Firings of the rules
\* before and after them.
C20_UnknownKindSkipped ==
    \A c \in CallIdxs("evaluate_category") :
        LET r == evaluate_category(evalIn.category_name, KnownRules(evalIn.cat_config),
                                   evalIn.ynab_category, evalCalls[c].before, evalIn.now)
        IN  evalCalls[c].err = r.err /\ evalCalls[c].ret = r.firings

\* evaluate_category on a config with a rule of unrecognized kind between a
\* goal_threshold rule and a pacing rule: it returned the Firing of the first
\* and then the Firing of the second
C20_Witness ==
    \E c \in CallIdxs("evaluate_category") :
        /\ Len(EvalRules) = 3
        /\ EvalRules[2]["type"] \notin RuleTypes
        /\ evalCalls[c].err = ""
        /\ Len(evalCalls[c].ret) = 2
        /\ evalCalls[c].ret[1].pacing_context = EmptyDict
        /\ evalCalls[c].ret[2].pacing_context # EmptyDict

\* the category config of the evaluation with enabled set to true
Enabled(cat_config) == [enabled |-> TRUE, rules |-> Get(cat_config, "rules", <<>>)]

\* what the rules of the category give when they are evaluated
RulesAlone(s) ==
    category_rules(evalIn.category_name, Get(evalIn.cat_config, "rules", <<>>),
                   evalIn.ynab_category, evalIn.now, 1,
                   [err |-> "", firings |-> <<>>, state |-> s])

\* C21: evaluate_category returns an empty list, without error, whenever the
\* category config has enabled = false, whatever its rules, snapshot and
\* state are; a config without an enabled key is evaluated as a config with
\* enabled = true is: it gives what its rules give.
C21_DisabledReturnsEmpty ==
    \A c \in CallIdxs("evaluate_category") :
        /\ ("enabled" \in DOMAIN evalIn.cat_config /\ ~evalIn.cat_config["enabled"])
           => (evalCalls[c].err = "" /\ evalCalls[c].ret = <<>>)
        /\ "enabled" \notin DOMAIN evalIn.cat_config
           => /\ evalCalls[c].err = RulesAlone(evalCalls[c].before).err
              /\ evalCalls[c].ret = RulesAlone(evalCalls[c].before).firings
              /\ LET r == evaluate_category(evalIn.category_name, Enabled(evalIn.cat_config),
                                            evalIn.ynab_category, evalCalls[c].before,
                                            evalIn.now)
                 IN  evalCalls[c].err = r.err /\ evalCalls[c].ret = r.firings

\* evaluate_category on a config with enabled = false whose rules, evaluated,
\* raise an error: it returned an empty list and no error
C21_Witness ==
    \E c \in CallIdxs("evaluate_category") :
        /\ "enabled" \in DOMAIN evalIn.cat_config /\ ~evalIn.cat_config["enabled"]
        /\ RulesAlone(evalCalls[c].before).err = "ValueError"
        /\ evalCalls[c].err = ""
        /\ evalCalls[c].ret = <<>>

RuleFirings(i, s) ==
    IF EvalRules[i]["type"] \in RuleTypes THEN RuleAlone(i, s).firings ELSE <<>>

RECURSIVE FiringsFrom(_, _)
\* the Firings of the rules from rule i on, each rule evaluated on its own
FiringsFrom(i, s) ==
    IF i > Len(EvalRules) THEN <<>> ELSE RuleFirings(i, s) \o FiringsFrom(i + 1, s)

\* the Firings are for triggers of the list, in the order of the list
InTriggerOrder(firings, triggers) ==
    \E f \in [1..Len(firings) -> 1..Len(triggers)] :
        /\ \A p \in 1..Len(firings), q \in 1..Len(firings) : p < q => f[p] < f[q]
        /\ \A p \in 1..Len(firings) : firings[p].trigger = triggers[f[p]]

\* C22: the list evaluate_category returns is the concatenation of each rule's
\* Firings in the order of the config's rules, and the Firings of one rule are
\* in the order of the rule's triggers.
C22_FiringsInRuleAndTriggerOrder ==
    \A c \in CallIdxs("evaluate_category") :
        (Get(evalIn.cat_config, "enabled", TRUE) /\ evalCalls[c].err = "") =>
            /\ evalCalls[c].ret = FiringsFrom(1, evalCalls[c].before)
            /\ \A i \in 1..Len(EvalRules) :
                   InTriggerOrder(RuleFirings(i, evalCalls[c].before),
                                  EvalRules[i]["triggers"])

\* evaluate_category returned the Firings of the two triggers of its first
\* rule, in their order, and then the Firing of its second rule
C22_Witness ==
    \E c \in CallIdxs("evaluate_category") :
        /\ Len(EvalRules) = 2
        /\ Len(evalCalls[c].ret) = 3
        /\ evalCalls[c].ret[1].trigger = EvalRules[1]["triggers"][1]
        /\ evalCalls[c].ret[2].trigger = EvalRules[1]["triggers"][2]
        /\ evalCalls[c].ret[1].trigger # evalCalls[c].ret[2].trigger
        /\ evalCalls[c].ret[3].trigger = EvalRules[2]["triggers"][1]
        /\ evalCalls[c].ret[3].pacing_context # EmptyDict

(***************************************************************************)
(* Properties of the category set.                                         *)
(***************************************************************************)
BuildExplicit == Get(evalIn.config, "categories", <<>>)

BuildAuto == Get(evalIn.config, "auto_alerts", EmptyDict)

\* the entries of a category set for a name
EntriesOf(categories, name) == {i \in 1..Len(categories) : categories[i][1] = name}

\* the config auto-detection gives a category
AutoDetected(rules) == [enabled |-> TRUE, rules |-> rules] @@ ("_auto_detected" :> TRUE)

\* the category set holds an auto-detected entry for the name
HasAutoDetected(categories, name) ==
    \E i \in EntriesOf(categories, name) : Get(categories[i][2], "_auto_detected", FALSE)

\* the name is in the category map with a limit that is present and non-zero
HasLimit(cat_map, name) ==
    \E i \in 1..Len(cat_map) :
        cat_map[i][1] = name /\ cat_map[i][2].goal_target \notin {None, <<0>>}

\* C23: with auto-detection enabled, build_final_category_config adds an
\* auto-detected category with the default rule set exactly for every
\* snapshot name that is not explicitly configured, not in the exclude set
\* and has a limit present and non-zero; with auto-detection disabled the
\* result is the explicit configuration.
C23_AutoDetectedExactlyWithLimit ==
    \A c \in CallIdxs("build_final_category_config") :
        IF Get(BuildAuto, "enabled", FALSE)
        THEN \A name \in {NameA, NameB, NameC} :
                 /\ HasAutoDetected(evalCalls[c].ret, name)
                    <=> /\ name \notin Keys(BuildExplicit)
                        /\ name \notin Get(BuildAuto, "exclude", {})
                        /\ HasLimit(evalIn.cat_map, name)
                 /\ \A i \in EntriesOf(evalCalls[c].ret, name) :
                        Get(evalCalls[c].ret[i][2], "_auto_detected", FALSE)
                        => evalCalls[c].ret[i][2] = AutoDetected(Get(BuildAuto, "rules", <<>>))
        ELSE evalCalls[c].ret = BuildExplicit

\* C24: every explicitly configured category is in the result once, with
\* exactly its explicit config, also when its name is in the exclude set or
\* its snapshot has a limit.
C24_ExplicitKept ==
    \A c \in CallIdxs("build_final_category_config") :
        \A i \in 1..Len(BuildExplicit) :
            /\ Cardinality(EntriesOf(evalCalls[c].ret, BuildExplicit[i][1])) = 1
            /\ \A j \in EntriesOf(evalCalls[c].ret, BuildExplicit[i][1]) :
                   evalCalls[c].ret[j] = BuildExplicit[i]

\* auto-detection added a category while the explicitly configured A, named
\* in the exclude set and with a limit in its snapshot, kept its config
C24_Witness ==
    \E c \in CallIdxs("build_final_category_config") :
        /\ NameA \in Keys(BuildExplicit)
        /\ NameA \in Get(BuildAuto, "exclude", {})
        /\ HasLimit(evalIn.cat_map, NameA)
        /\ \E name \in {NameB, NameC} : HasAutoDetected(evalCalls[c].ret, name)
        /\ \E i \in 1..Len(BuildExplicit) :
               BuildExplicit[i][1] = NameA /\ evalCalls[c].ret[i] = BuildExplicit[i]

(***************************************************************************)
(* Properties of the parser.                                               *)
(***************************************************************************)
Lower(s) == [i \in 1..Len(s) |-> ToLower(s[i])]

\* the number a [0-9]+(\.[0-9]+)? numeral writes, as the float nearest to it
NumberOf(n) ==
    LET point == IF \E i \in 1..Len(n) : n[i] = "." THEN CHOOSE i \in 1..Len(n) : n[i] = "."
                 ELSE Len(n) + 1
        digits == SubSeq(n, 1, point - 1) \o SubSeq(n, point + 1, Len(n))
    IN  FromRatio(DigitsToInt(digits, 1, Len(digits)), Pow10(IF point > Len(n) THEN 0 ELSE Len(n) - point))

\* the strings of the grammar for a numeral: trimmed and in lower case, with
\* any number of spaces before "%", "over" and "remaining"
GrammarPercentSpent(n) == {n \o Spaces(a) \o <<"%">> : a \in 0..(MaxSpaces + 2)}

GrammarPercentOver(n) ==
    {n \o Spaces(a) \o <<"%">> \o Spaces(b) \o <<"o", "v", "e", "r">> :
        a \in 0..(MaxSpaces + 2), b \in 0..(MaxSpaces + 2)}

GrammarDollarsRemaining(n) ==
    {<<"$">> \o n \o Spaces(a) \o <<"r", "e", "m", "a", "i", "n", "i", "n", "g">> :
        a \in 0..(MaxSpaces + 2)}

\* what the grammar gives for a string: the kind and the numeral, or no kind
Grammar(s) ==
    LET t == Lower(Strip(s))
    IN  IF \E n \in Numerals : t \in GrammarPercentSpent(n)
        THEN [kind |-> "percent_spent",
              numeral |-> CHOOSE n \in Numerals : t \in GrammarPercentSpent(n)]
        ELSE IF \E n \in Numerals : t \in GrammarPercentOver(n)
        THEN [kind |-> "percent_over",
              numeral |-> CHOOSE n \in Numerals : t \in GrammarPercentOver(n)]
        ELSE IF \E n \in Numerals : t \in GrammarDollarsRemaining(n)
        THEN [kind |-> "dollars_remaining",
              numeral |-> CHOOSE n \in Numerals : t \in GrammarDollarsRemaining(n)]
        ELSE [kind |-> "", numeral |-> <<>>]

\* C25: parse_threshold agrees with the grammar on every string: a string
\* that, trimmed and up to case and spaces before "%" and "over", is
\* "<number>%", "$<number> remaining" or "<number>% over" gives that kind
\* with the number, and every other string fails.
C25_ParserAgreesWithGrammar ==
    \A c \in CallIdxs("parse_threshold") :
        IF Grammar(evalIn.at_value).kind # ""
        THEN /\ evalCalls[c].err = ""
             /\ evalCalls[c].ret = <<Grammar(evalIn.at_value).kind,
                                     NumberOf(Grammar(evalIn.at_value).numeral)>>
        ELSE evalCalls[c].err = "ValueError"

(***************************************************************************)
(* Properties of the trigger loop of the rule evaluators.                  *)
(***************************************************************************)
\* should_alert for trigger k of rule i on the state s, with the cooldown
\* hours of the rule
Alerts(i, k, s) ==
    should_alert(s, evalIn.category_name, EvalRules[i]["triggers"][k].at,
                 Get(EvalRules[i], "min_hours_between_alerts",
                     IF EvalRules[i]["type"] = "pacing" THEN DefaultPacingMinHours
                     ELSE DefaultGoalMinHours),
                 evalIn.now).ret

\* what evaluate_pacing gives, as [err, ret]
Fired(r) == [err |-> r.err, ret |-> r.fired]

\* what the low-level evaluator of rule i gives for trigger k: [err, ret]
LowLevel(i, k) ==
    IF EvalRules[i]["type"] = "pacing"
    THEN Fired(evaluate_pacing(evalIn.ynab_category, EvalRules[i]["triggers"][k], evalIn.now))
    ELSE evaluate_goal_threshold(evalIn.ynab_category, EvalRules[i]["triggers"][k])

ReturnedTrue(r) == r.err = "" /\ r.ret

\* trigger k of rule i is due on the state s: should_alert is true and the
\* low-level evaluator returns true
Due(i, k, s) == Alerts(i, k, s) /\ ReturnedTrue(LowLevel(i, k))

\* the snapshot has a limit, and a pacing rule is past its warm-up at m
\* minutes into the month
Usable(i, m) ==
    /\ evalIn.ynab_category.goal_target # None
    /\ EvalRules[i]["type"] = "pacing"
       => m >= Get(EvalRules[i], "warm_up_hours", DefaultWarmUpHours) * 60

\* C26: in both rule evaluators, for a snapshot with a limit (and past the
\* warm-up for pacing), the result holds a Firing for a trigger exactly when
\* should_alert is true for the category and the trigger's expression with
\* the rule's cooldown hours and the low-level evaluator returns true; a
\* trigger for which should_alert is false is not evaluated, so an error can
\* only come from a trigger for which should_alert is true.
C26_FiringExactlyWhenDue ==
    \A c \in RuleCallIdxs :
        LET i == evalCalls[c].arg[1]
            s == evalCalls[c].before
            triggers == EvalRules[i]["triggers"]
        IN  Usable(i, evalCalls[c].arg[2]) =>
                IF evalCalls[c].err = ""
                THEN /\ \A k \in 1..Len(triggers) :
                            (\E p \in 1..Len(evalCalls[c].ret) :
                                /\ evalCalls[c].ret[p].trigger = triggers[k]
                                /\ evalCalls[c].ret[p].category_name = evalIn.category_name)
                            <=> Due(i, k, s)
                     /\ Len(evalCalls[c].ret) = Cardinality({k \in 1..Len(triggers) : Due(i, k, s)})
                ELSE \E k \in 1..Len(triggers) :
                        Alerts(i, k, s) /\ LowLevel(i, k).err = evalCalls[c].err

\* a rule evaluator returned the Firing of a due trigger and no error, with
\* a trigger in its cooldown whose evaluation would have raised
C26_Witness ==
    \E c \in RuleCallIdxs :
        LET i == evalCalls[c].arg[1]
            s == evalCalls[c].before
        IN  /\ Usable(i, evalCalls[c].arg[2])
            /\ evalCalls[c].err = ""
            /\ Len(evalCalls[c].ret) = 1
            /\ \E k \in 1..Len(EvalRules[i]["triggers"]) : Due(i, k, s)
            /\ \E k \in 1..Len(EvalRules[i]["triggers"]) :
                   ~Alerts(i, k, s) /\ LowLevel(i, k).err = "ValueError"

(***************************************************************************)
(* Properties of the loop of main.                                         *)
(***************************************************************************)
\* the step delivers the alert of the Firing run p is at and records it
SentAndRecorded(p) ==
    /\ sent' = Append(sent, [category_name |-> Head(runs[p].firings).category_name,
                             at |-> Head(runs[p].firings).trigger.at,
                             time |-> Instant(clock),
                             cat_config |-> runs[p].cat_config])
    /\ runs'[p].state = record_firing(runs[p].state, Head(runs[p].firings).category_name,
                                      Head(runs[p].firings).trigger.at, runs[p].now)
    /\ runs'[p].firings = Tail(runs[p].firings)
    /\ runs'[p].pc = "evaluate"

\* the step ends run p with no alert delivered, nothing recorded and nothing
\* written: the Firing it was at and those after it are dropped with the
\* state of the run
FailedUnrecorded(p) ==
    /\ sent' = sent
    /\ runs'[p] = Ended("failed")
    /\ store' = store
    /\ writes' = writes

\* C27: in a run of main, record_firing for a Firing is executed only after
\* send_alert for that Firing returned without error; when send_alert raises,
\* that Firing and the later Firings of the run are not recorded.
C27_RecordOnlyAfterSend ==
    [][\A p \in DOMAIN runs :
          (runs[p].pc = "evaluate" /\ runs[p].firings # <<>>)
          => \/ runs'[p] = runs[p]
             \/ SentAndRecorded(p)
             \/ FailedUnrecorded(p)]_vars

\* the first run had two Firings: the alert of the first was delivered, the
\* send_alert of the second raised, and nothing was written
C27_Witness ==
    /\ started = 1
    /\ Len(Get(config["categories"][1][2], "rules", <<>>)) = 2
    /\ Len(sent) = 1
    /\ writes = <<>>
    /\ runs[1].pc = "failed"

\* the months of the buckets of a state
Buckets(state) == DOMAIN Get(state, "fired", EmptyDict)

\* C28: in every run of main prune_old_months is executed once, after the
\* state is loaded and before the first should_alert or record_firing call:
\* the step from the loaded state to the loop prunes it, and the state the
\* loop works on never holds a bucket older than the month of the run.
C28_PrunedOnceBeforeEvaluation ==
    /\ [](\A p \in DOMAIN runs :
             runs[p].pc = "evaluate"
             => \A k \in Buckets(runs[p].state) : ~StrLess(k, current_month_key(runs[p].now)))
    /\ [][\A p \in DOMAIN runs :
             /\ (runs[p].pc = "get_state_sha" /\ runs'[p] # runs[p])
                => /\ runs[p].state = load_state(runs[p].loaded)
                   /\ runs'[p].state = prune_old_months(runs[p].state, runs[p].now)
                   /\ runs'[p].pc = "evaluate"
             /\ (runs[p].pc = "evaluate" /\ runs'[p].pc = "evaluate")
                => Buckets(runs[p].state) \subseteq Buckets(runs'[p].state)]_vars

\* a run started in a later month than the firing in the file it loaded: it
\* is in its loop, and the bucket of the earlier month is gone from its state
C28_Witness ==
    \E p \in DOMAIN runs :
        /\ runs[p].pc = "evaluate"
        /\ runs[p].loaded.exists
        /\ \E k \in Buckets(runs[p].loaded.content) :
               StrLess(k, current_month_key(runs[p].now))
        /\ \A k \in Buckets(runs[p].state) : ~StrLess(k, current_month_key(runs[p].now))

\* run p is at a category of final_categories that is enabled and not in
\* cat_map
AtAbsentCategory(p) ==
    /\ runs[p].pc = "evaluate"
    /\ runs[p].firings = <<>>
    /\ runs[p].todo # <<>>
    /\ Get(Head(runs[p].todo)[2], "enabled", TRUE)
    /\ Lookup(runs[p].cat_map, Head(runs[p].todo)[1]) = None

\* run p is at a category of final_categories that is enabled and in cat_map
AtPresentCategory(p) ==
    /\ runs[p].pc = "evaluate"
    /\ runs[p].firings = <<>>
    /\ runs[p].todo # <<>>
    /\ Get(Head(runs[p].todo)[2], "enabled", TRUE)
    /\ Lookup(runs[p].cat_map, Head(runs[p].todo)[1]) # None

\* C29: a configured category that is absent from the snapshot set produces
\* no Firing and no error in a run of main: the run goes on to the next
\* category with its state, the alerts sent and the file as they were, and
\* the categories after it are evaluated, with their Firings to send and
\* record.
C29_AbsentCategorySkipped ==
    [][\A p \in DOMAIN runs :
          /\ (AtAbsentCategory(p) /\ runs'[p] # runs[p])
             => /\ runs'[p] = [runs[p] EXCEPT !.todo = Tail(@)]
                /\ sent' = sent
                /\ store' = store
          /\ (AtPresentCategory(p) /\ runs'[p] # runs[p])
             => runs'[p] = Evaluated(p, Head(runs[p].todo)[2],
                                     evaluate_category(
                                         Head(runs[p].todo)[1], Head(runs[p].todo)[2],
                                         Lookup(runs[p].cat_map, Head(runs[p].todo)[1])[1],
                                         runs[p].state, runs[p].now))[p]]_vars

\* a run whose config names A first, with no A in its snapshot set: it went
\* on to B, sent B's alert and recorded B's firing
C29_Witness ==
    \E p \in DOMAIN runs :
        /\ runs[p].pc = "evaluate"
        /\ runs[p].todo = <<>>
        /\ runs[p].firings = <<>>
        /\ config["categories"][1][1] = NameA
        /\ Get(config["categories"][1][2], "enabled", TRUE)
        /\ Lookup(runs[p].cat_map, NameA) = None
        /\ \E i \in 1..Len(sent) : sent[i].category_name = NameB
        /\ runs[p].state_dirty
        /\ ~should_alert(runs[p].state, NameB, at5, 1, runs[p].now).ret

(***************************************************************************)
(* Properties of the pacing context.                                       *)
(***************************************************************************)
ContextKeys ==
    {"activity", "goal_target", "expected_spend", "projected_eom", "percent_over",
     "days_elapsed", "days_in_month"}

\* the context carries the figures of the projection for the snapshot and
\* the instant drawn at the start
FullContext(context) ==
    /\ DOMAIN context = ContextKeys
    /\ context["activity"] = evalIn.ynab_category.activity
    /\ context["goal_target"] = evalIn.ynab_category.goal_target[1]
    /\ context["days_elapsed"] = CalcElapsed
    /\ context["days_in_month"] = CalcDays
    /\ context["expected_spend"]
          = expected_spend(evalIn.ynab_category.goal_target[1], CalcDays, CalcElapsed)
    /\ context["projected_eom"]
          = projected_eom(evalIn.ynab_category.activity, CalcDays, CalcElapsed)
    /\ context["percent_over"]
          = percent_over(context["projected_eom"], evalIn.ynab_category.goal_target[1])

\* C30: for a snapshot with a present, non-zero limit and a PercentOver
\* trigger, the context evaluate_pacing returns carries expected_spend,
\* projected_eom, percent_over, days_elapsed and days_in_month plus the raw
\* activity and limit, whether the trigger fired or not; every Firing of
\* evaluate_pacing_rule carries that context, and the Firings of
\* evaluate_goal_threshold_rule carry an empty one.
C30_PacingContextAlwaysCarried ==
    /\ \A c \in CallIdxs("evaluate_pacing") :
           (CalcHasLimit /\ CalcParsed.err = "" /\ CalcParsed.type = "percent_over")
           => evalCalls[c].err = "" /\ FullContext(evalCalls[c].ret[2])
    /\ \A c \in CallIdxs("evaluate_pacing_rule") :
           \A p \in 1..Len(evalCalls[c].ret) :
               /\ FullContext(evalCalls[c].ret[p].pacing_context)
               /\ evalCalls[c].ret[p].pacing_context
                    = evaluate_pacing(evalIn.ynab_category, evalIn.trigger, evalIn.now).context
    /\ \A c \in CallIdxs("evaluate_goal_threshold_rule") :
           \A p \in 1..Len(evalCalls[c].ret) :
               evalCalls[c].ret[p].pacing_context = EmptyDict

\* evaluate_pacing returned False for a PercentOver trigger on a snapshot
\* with a limit, with the whole context
C30_Witness ==
    \E c \in CallIdxs("evaluate_pacing") :
        /\ CalcHasLimit
        /\ CalcParsed.type = "percent_over"
        /\ evalCalls[c].err = ""
        /\ evalCalls[c].ret[1] = FALSE
        /\ FullContext(evalCalls[c].ret[2])

(***************************************************************************)
(* Properties of what a run of main saves.                                 *)
(***************************************************************************)
\* the timestamp a state holds for (category_name, trigger_key) in the bucket
\* of the month of now: None when it holds none
Recorded(state, category_name, trigger_key, now) ==
    GetOpt(Get(Get(state, "fired", EmptyDict), current_month_key(now), EmptyDict),
           StateKey(category_name, trigger_key))

\* the alerts run p has sent, runs following one another: the last
\* total_firings alerts
RunAlerts(p) == (Len(sent) - runs[p].total_firings + 1)..Len(sent)

\* the step ends run p without error
EndsWithoutError(p) == runs[p].pc = "evaluate" /\ runs'[p].pc = "done"

\* C31: in a run of main that ends without error, every alert sent in the
\* run has its "category:trigger" key, with the timestamp of the run, in the
\* current month's bucket of the state handed to save_state, and save_state
\* is called once, as the last step of the run; in a run that sends no alert
\* save_state is not called.
C31_SentAlertsAreSaved ==
    [][/\ \A p \in DOMAIN runs :
             EndsWithoutError(p) =>
                 IF runs[p].total_firings = 0
                 THEN writes' = writes /\ store' = store
                 ELSE /\ writes' = Append(writes, [loaded |-> runs[p].loaded,
                                                    replaced |-> store,
                                                    written |-> runs[p].state,
                                                    now |-> runs[p].now])
                      /\ store' = File(runs[p].state)
                      /\ \A i \in RunAlerts(p) :
                             Recorded(runs[p].state, sent[i].category_name, sent[i].at,
                                      runs[p].now) = <<isoformat(runs[p].now)>>
       /\ writes' # writes => \E p \in DOMAIN runs : EndsWithoutError(p)]_vars

\* the first run sent two alerts and ended without error: it saved once, a
\* state that holds the key of its alerts with its timestamp
C31_Witness ==
    /\ started = 1
    /\ runs[1].pc = "done"
    /\ Len(sent) = 2
    /\ Len(writes) = 1
    /\ store = File(writes[1].written)
    /\ \A i \in 1..2 :
           Recorded(writes[1].written, sent[i].category_name, sent[i].at, writes[1].now)
               = <<isoformat(writes[1].now)>>

\* run p is between load_state and its end
Running(p) == runs[p].pc \in {"get_state_sha", "evaluate"}

\* the state holds a bucket of a month before the month of now
HasOldBucket(state, now) == \E k \in Buckets(state) : StrLess(k, current_month_key(now))

C33_OncePerMonth ==
    \A c \in CallIdxs("should_alert") :
        (/\ evalCalls[c].arg[2] = DefaultGoalMinHours
         /\ SameMonth(evalIn.now, evalIn.recorded)
         /\ MinutesBetween(evalIn.now, evalIn.recorded) >= 0)
        => evalCalls[c].ret = FALSE

\* a firing recorded in the first minute of a month of 31 days, and
\* should_alert with 744 hours false in the last minute of the month
C33_Witness ==
    \E c \in CallIdxs("should_alert") :
        /\ evalCalls[c].arg[2] = DefaultGoalMinHours
        /\ SameMonth(evalIn.now, evalIn.recorded)
        /\ DaysInMonth(evalIn.now.year, evalIn.now.month) = 31
        /\ MinutesBetween(evalIn.now, evalIn.recorded) = 31 * 1440 - 1
        /\ evalCalls[c].ret = FALSE

(***************************************************************************)
(* Properties of eligibility over time.                                    *)
(***************************************************************************)
\* the clocks of the calls made so far never go back
ClocksNonDecreasing ==
    \A i \in 1..Len(fireLog), j \in 1..Len(fireLog) :
        i < j => MinutesBetween(fireLog[j].now, fireLog[i].now) >= 0

\* the instants that are not before the last call
NotBeforeLastCall ==
    {now \in Instants :
        Len(fireLog) > 0 => MinutesBetween(now, fireLog[Len(fireLog)].now) >= 0}

\* C34: eligibility is monotonic in time: in a state reached by calls whose
\* clocks are non-decreasing, should_alert(state, c, t, H, now1) true gives
\* should_alert(state, c, t, H, now2) true for every now2 >= now1, and it
\* stays true over a call that is not a record_firing for (c, t).
C34_EligibilityMonotonic ==
    ClocksNonDecreasing =>
        \A c \in CatNames, t \in TrigKeys, H \in CooldownHours :
            /\ \A now1 \in NotBeforeLastCall, now2 \in NotBeforeLastCall :
                   (/\ MinutesBetween(now2, now1) >= 0
                    /\ should_alert(st, c, t, H, now1).ret)
                   => should_alert(st, c, t, H, now2).ret
            /\ (/\ Len(fireLog) > 0
                /\ ~(LastCall.op = "record_firing" /\ LastCall.c = c /\ LastCall.t = t)
                /\ should_alert(LastCall.before, c, t, H, LastCall.now).ret)
               => \A now2 \in NotBeforeLastCall : should_alert(st, c, t, H, now2).ret

====
